---------------------------- MODULE Spec2Model ----------------------------
(***************************************************************************)
(* A model of the gbemu core: the memory bus (memory.cpp), the CPU run     *)
(* loop, the opcode dispatch and the interrupt step (cpu.cpp) and the      *)
(* instruction implementations (cpu_ops.cpp).                              *)
(*                                                                         *)
(* The machine is handled as a record m:                                   *)
(*   m.r                   the registers A F B C D E H L sp pc             *)
(*   m.mem                 the arrays owned by the memory bus              *)
(*   m.interrupts_enabled  IME                                             *)
(*   m.pipeline            the queue of pending actions                    *)
(*   m.cycles              the cycle counter                               *)
(*   m.t, m.ret            the value an operation hands back (a fetched    *)
(*                         byte, the new value of a uint8_t& argument) and *)
(*                         the cycle count it returns                      *)
(*   m.ub                  the byte an out-of-bounds cartridge read yields *)
(*   m.oob                 set once a store left the cartridge buffer      *)
(* Every operation of the source is an operator from machine to machine.   *)
(***************************************************************************)
EXTENDS Integers, Sequences, FiniteSets, TLC

VARIABLES r, mem, interrupts_enabled, pipeline, running, cycles,
          run_pc, host, hist, turns, oob, bus, header

vars == <<r, mem, interrupts_enabled, pipeline, running, cycles,
          run_pc, host, hist, turns, oob, bus, header>>

---------------------------------------------------------------------------
(* Bounds of the model.                                                    *)

\* loop iterations of cpu::run that are explored
MaxTurns == 8
\* calls the host thread makes to queue_interrupt
MaxHostCalls == 1
MaxLongTurns == 48

---------------------------------------------------------------------------
(* Integer helpers: C++ unsigned arithmetic and bit operators.             *)

u8(x) == x % 256
u16(x) == x % 65536
\* static_cast<int8_t>(b) of a byte b
s8(b) == IF b >= 128 THEN b - 256 ELSE b

BitOf(x, n) == (x \div (2 ^ n)) % 2

\* a & b, a | b, a ^ b on bytes
And8(a, b) ==
      BitOf(a, 0) * BitOf(b, 0)       + 2 * BitOf(a, 1) * BitOf(b, 1)
    + 4 * BitOf(a, 2) * BitOf(b, 2)   + 8 * BitOf(a, 3) * BitOf(b, 3)
    + 16 * BitOf(a, 4) * BitOf(b, 4)  + 32 * BitOf(a, 5) * BitOf(b, 5)
    + 64 * BitOf(a, 6) * BitOf(b, 6)  + 128 * BitOf(a, 7) * BitOf(b, 7)
Or8(a, b) == a + b - And8(a, b)
Xor8(a, b) == a + b - 2 * And8(a, b)

\* x with bit n set (b = TRUE) or cleared (b = FALSE)
SetBitTo(x, n, b) == x - BitOf(x, n) * (2 ^ n) + (IF b THEN 2 ^ n ELSE 0)

\* a sparse array: the cells that were stored to, every other cell reads d
AtOr(f, i, d) == IF i \in DOMAIN f THEN f[i] ELSE d
Put(f, i, v) == [j \in (DOMAIN f) \cup {i} |-> IF j = i THEN v ELSE f[j]]

---------------------------------------------------------------------------
(* memory.hpp / memory.cpp                                                 *)

bootstrap_rom == <<
    \h31, \hfe, \hff, \haf, \h21, \hff, \h9f, \h32,
    \hcb, \h7c, \h20, \hfb, \h21, \h26, \hff, \h0e,
    \h11, \h3e, \h80, \h32, \he2, \h0c, \h3e, \hf3,
    \he2, \h32, \h3e, \h77, \h77, \h3e, \hfc, \he0,
    \h47, \h11, \h04, \h01, \h21, \h10, \h80, \h1a,
    \hcd, \h95, \h00, \hcd, \h96, \h00, \h13, \h7b,
    \hfe, \h34, \h20, \hf3, \h11, \hd8, \h00, \h06,
    \h08, \h1a, \h13, \h22, \h23, \h05, \h20, \hf9,
    \h3e, \h19, \hea, \h10, \h99, \h21, \h2f, \h99,
    \h0e, \h0c, \h3d, \h28, \h08, \h32, \h0d, \h20,
    \hf9, \h2e, \h0f, \h18, \hf3, \h67, \h3e, \h64,
    \h57, \he0, \h42, \h3e, \h91, \he0, \h40, \h04,
    \h1e, \h02, \h0e, \h0c, \hf0, \h44, \hfe, \h90,
    \h20, \hfa, \h0d, \h20, \hf7, \h1d, \h20, \hf2,
    \h0e, \h13, \h24, \h7c, \h1e, \h83, \hfe, \h62,
    \h28, \h06, \h1e, \hc1, \hfe, \h64, \h20, \h06,
    \h7b, \he2, \h0c, \h3e, \h87, \he2, \hf0, \h42,
    \h90, \he0, \h42, \h15, \h20, \hd2, \h05, \h20,
    \h4f, \h16, \h20, \h18, \hcb, \h4f, \h06, \h04,
    \hc5, \hcb, \h11, \h17, \hc1, \hcb, \h11, \h17,
    \h05, \h20, \hf5, \h22, \h23, \h22, \h23, \hc9,
    \hce, \hed, \h66, \h66, \hcc, \h0d, \h00, \h0b,
    \h03, \h73, \h00, \h83, \h00, \h0c, \h00, \h0d,
    \h00, \h08, \h11, \h1f, \h88, \h89, \h00, \h0e,
    \hdc, \hcc, \h6e, \he6, \hdd, \hdd, \hd9, \h99,
    \hbb, \hbb, \h67, \h63, \h6e, \h0e, \hec, \hcc,
    \hdd, \hdc, \h99, \h9f, \hbb, \hb9, \h33, \h3e,
    \h3c, \h42, \hb9, \ha5, \hb9, \ha5, \h42, \h3c,
    \h21, \h04, \h01, \h11, \ha8, \h00, \h1a, \h13,
    \hbe, \h20, \hfe, \h23, \h7d, \hfe, \h34, \h20,
    \hf5, \h06, \h19, \h78, \h86, \h23, \h05, \h20,
    \hfb, \h86, \h20, \hfe, \h3e, \h01, \he0, \h50 >>

\* memory mapped registers the CPU uses
interrupt_flag == \hFF0F
interrupt_enable == \hFFFF
lcd_control == \hFF40
divider == \hFF04

\* cart.data[addr]: the cartridge image holds cart_size bytes; an index
\* past its end is outside the buffer and reads an arbitrary byte (m.ub)
cart_at(m, addr) ==
    IF addr < m.mem.cart_size THEN AtOr(m.mem.cart_data, addr, 0) ELSE m.ub

\* direct_memory_bank::read
controller_read(m, addr) == cart_at(m, addr)

\* direct_memory_bank::write: stores into the cartridge image itself
controller_write(m, addr, val) ==
    IF addr < m.mem.cart_size
    THEN [m EXCEPT !.mem.cart_data = Put(@, addr, val)]
    ELSE [m EXCEPT !.oob = TRUE]

\* a boot ROM that is never switched off
boot_rom_visible_always(m) == TRUE
\* the test of the disable_boot_rom register, io_registers[0x50] == 0
boot_rom_visible(m) == AtOr(m.mem.io_registers, \h50, 0) = 0

\* memory::read
read(m, addr) ==
    IF addr < \h4000 THEN
        IF addr < \h0100 /\ boot_rom_visible(m)
        THEN bootstrap_rom[addr + 1]
        ELSE cart_at(m, addr)
    ELSE IF addr < \h8000 THEN controller_read(m, addr)
    ELSE IF addr < \hA000 THEN AtOr(m.mem.vram, addr - \h8000, 0)
    ELSE IF addr < \hC000 THEN controller_read(m, addr)
    ELSE IF addr < \hD000 THEN AtOr(m.mem.wram_bank_0, addr - \hC000, 0)
    ELSE IF addr < \hE000 THEN AtOr(m.mem.wram_bank_n, addr - \hD000, 0)
    ELSE IF addr < \hF000 THEN AtOr(m.mem.wram_bank_0, addr - \hE000, 0)
    ELSE IF addr < \hFE00 THEN AtOr(m.mem.wram_bank_n, addr - \hF000, 0)
    ELSE IF addr < \hFEA0 THEN 0
    ELSE IF addr < \hFF00 THEN 0
    ELSE IF addr < \hFF80 THEN AtOr(m.mem.io_registers, addr - \hFF00, 0)
    ELSE IF addr < \hFFFF THEN AtOr(m.mem.stack, addr - \hFF80, 0)
    ELSE m.mem.interrupt_enable_register

\* memory::read16; addr + 1 is converted back to uint16_t
read16(m, addr) == read(m, u16(addr + 1)) * 256 + read(m, addr)

\* a write that does not forward the range 0xE000..0xFDFF to work RAM
write_no_mirror(m, addr, val) ==
    IF addr < \h8000 THEN controller_write(m, addr, val)
    ELSE IF addr < \hA000 THEN [m EXCEPT !.mem.vram = Put(@, addr - \h8000, val)]
    ELSE IF addr < \hC000 THEN controller_write(m, addr, val)
    ELSE IF addr < \hD000 THEN [m EXCEPT !.mem.wram_bank_0 = Put(@, addr - \hC000, val)]
    ELSE IF addr < \hE000 THEN [m EXCEPT !.mem.wram_bank_n = Put(@, addr - \hD000, val)]
    ELSE IF addr < \hFE00 THEN m
    ELSE IF addr < \hFEA0 THEN m
    ELSE IF addr < \hFF00 THEN m
    ELSE IF addr < \hFF80 THEN [m EXCEPT !.mem.io_registers = Put(@, addr - \hFF00, val)]
    ELSE IF addr < \hFFFF THEN [m EXCEPT !.mem.stack = Put(@, addr - \hFF80, val)]
    ELSE [m EXCEPT !.mem.interrupt_enable_register = val]

\* memory::write
write(m, addr, val) ==
    IF addr < \h8000 THEN controller_write(m, addr, val)
    ELSE IF addr < \hA000 THEN [m EXCEPT !.mem.vram = Put(@, addr - \h8000, val)]
    ELSE IF addr < \hC000 THEN controller_write(m, addr, val)
    ELSE IF addr < \hD000 THEN [m EXCEPT !.mem.wram_bank_0 = Put(@, addr - \hC000, val)]
    ELSE IF addr < \hE000 THEN [m EXCEPT !.mem.wram_bank_n = Put(@, addr - \hD000, val)]
    ELSE IF addr < \hF000 THEN [m EXCEPT !.mem.wram_bank_0 = Put(@, addr - \hE000, val)]
    ELSE IF addr < \hFE00 THEN [m EXCEPT !.mem.wram_bank_n = Put(@, addr - \hF000, val)]
    ELSE IF addr < \hFEA0 THEN m
    ELSE IF addr < \hFF00 THEN m
    ELSE IF addr < \hFF80 THEN [m EXCEPT !.mem.io_registers = Put(@, addr - \hFF00, val)]
    ELSE IF addr < \hFFFF THEN [m EXCEPT !.mem.stack = Put(@, addr - \hFF80, val)]
    ELSE [m EXCEPT !.mem.interrupt_enable_register = val]

\* memory::write16: both stores go to addr
write16(m, addr, val) == write(write(m, addr, val % 256), addr, val \div 256)

---------------------------------------------------------------------------
(* Registers and flags (cpu.hpp, registers.hpp)                            *)

\* the 16-bit views: the first named register is the high byte
get16(m, rr) ==
    CASE rr = "AF" -> m.r.A * 256 + m.r.F
      [] rr = "BC" -> m.r.B * 256 + m.r.C
      [] rr = "DE" -> m.r.D * 256 + m.r.E
      [] rr = "HL" -> m.r.H * 256 + m.r.L
      [] rr = "sp" -> m.r.sp
      [] rr = "pc" -> m.r.pc

set16(m, rr, v) ==
    CASE rr = "AF" -> [m EXCEPT !.r.A = v \div 256, !.r.F = v % 256]
      [] rr = "BC" -> [m EXCEPT !.r.B = v \div 256, !.r.C = v % 256]
      [] rr = "DE" -> [m EXCEPT !.r.D = v \div 256, !.r.E = v % 256]
      [] rr = "HL" -> [m EXCEPT !.r.H = v \div 256, !.r.L = v % 256]
      [] rr = "sp" -> [m EXCEPT !.r.sp = v]
      [] rr = "pc" -> [m EXCEPT !.r.pc = v]

zero(m) == BitOf(m.r.F, 7) = 1
sub(m) == BitOf(m.r.F, 6) = 1
half_carry(m) == BitOf(m.r.F, 5) = 1
carry(m) == BitOf(m.r.F, 4) = 1

\* the flag setters applied in a row: each of z, n, h, c is 1 (set_x),
\* 0 (reset_x) or 2 (the operation does not touch the flag)
b2i(b) == IF b THEN 1 ELSE 0
flag_to(F, bit, v) == IF v = 2 THEN F ELSE SetBitTo(F, bit, v = 1)
flags(m, z, n, h, c) ==
    [m EXCEPT !.r.F = flag_to(flag_to(flag_to(flag_to(@, 7, z), 6, n), 5, h), 4, c)]

\* mask = numeric_limits<T>::max() >> 8 for T of w bits: 0 for uint8_t
carry_mask(w) == ((2 ^ w) - 1) \div 256
check_add_half_carry(w, a, b) ==
    (a % (carry_mask(w) + 1)) + (b % (carry_mask(w) + 1)) > carry_mask(w)
check_add_carry(w, a, b) == a + b > (2 ^ w) - 1
check_sub_half_carry(w, a, b) ==
    (a % (carry_mask(w) + 1)) - (b % (carry_mask(w) + 1)) < 0
check_sub_carry(a, b) == a - b < 0

\* the cycle count an operation returns
ret(m, n) == [m EXCEPT !.ret = n]
\* a uint8_t& argument bound to memory: the new value is stored back
store_back(o, addr, n) == ret(write(o, addr, o.t), n)

\* cpu::fetch, cpu::fetch16: the value read is handed back in t
fetch(m) == [m EXCEPT !.t = read(m, m.r.pc), !.r.pc = u16(@ + 1)]
fetch16(m) == [m EXCEPT !.t = read16(m, m.r.pc), !.r.pc = u16(@ + 2)]

---------------------------------------------------------------------------
(* cpu_ops.cpp: loads                                                      *)

op_ld_n(m, reg) == LET f == fetch(m) IN ret([f EXCEPT !.r[reg] = f.t], 8)
op_ld_n_addr(m, addr) == LET f == fetch(m) IN ret(write(f, addr, f.t), 12)
op_ld(m, dst, val) == ret([m EXCEPT !.r[dst] = val], 4)
op_ld_from_addr(m, dst, addr) == ret([m EXCEPT !.r[dst] = read(m, addr)], 8)
op_ld_to_addr(m, addr, val) == ret(write(m, addr, val), 8)
op_ld_to_nn(m, val) == LET f == fetch16(m) IN ret(write(f, f.t, val), 16)

op_ldd_A(m) ==
    ret(set16([m EXCEPT !.r.A = read(m, get16(m, "HL"))], "HL", u16(get16(m, "HL") - 1)), 8)
op_ldd_HL(m) ==
    ret(set16(write(m, get16(m, "HL"), m.r.A), "HL", u16(get16(m, "HL") - 1)), 8)
op_ldi_A(m) ==
    ret(set16([m EXCEPT !.r.A = read(m, get16(m, "HL"))], "HL", u16(get16(m, "HL") + 1)), 8)
op_ldi_HL(m) ==
    ret(set16(write(m, get16(m, "HL"), m.r.A), "HL", u16(get16(m, "HL") + 1)), 8)

\* op_ldh_A stores A, op_ldh_n loads A
op_ldh_A(m) == LET f == fetch(m) IN ret(write(f, \hFF00 + f.t, f.r.A), 12)
op_ldh_n(m) == LET f == fetch(m) IN ret([f EXCEPT !.r.A = read(f, \hFF00 + f.t)], 12)

op_ld16(m, rr) == LET f == fetch16(m) IN ret(set16(f, rr, f.t), 12)
op_ld16_val(m, rr, val) == ret(set16(m, rr, val), 8)

\* immd *= -1 on an int8_t, then static_cast<uint16_t>
neg_s8_u16(d) == u16(s8(u8(0 - d)))

op_ld16_HL(m) ==
    LET f == fetch(m)
        immd == s8(f.t)
        g == set16(f, "HL", read(f, u16(f.r.sp + immd)))
    IN  ret(IF immd >= 0
            THEN flags(g, 0, 0,
                       b2i(check_add_half_carry(16, g.r.sp, immd)),
                       b2i(check_add_carry(16, g.r.sp, immd)))
            ELSE flags(g, 0, 0,
                       b2i(check_sub_half_carry(16, g.r.sp, neg_s8_u16(immd))),
                       b2i(check_sub_carry(g.r.sp, neg_s8_u16(immd)))),
            12)

op_ld16_nn(m) == LET f == fetch16(m) IN ret(write16(f, f.t, f.r.sp), 20)

\* stack: the store is made at sp, then sp drops by 2
op_push(m, val) == ret([write16(m, m.r.sp, val) EXCEPT !.r.sp = u16(@ - 2)], 16)
\* the value loaded for the uint16_t& argument is handed back in t
op_pop(m) == ret([m EXCEPT !.t = read16(m, m.r.sp), !.r.sp = u16(@ + 2)], 12)

---------------------------------------------------------------------------
(* cpu_ops.cpp: 8-bit ALU. a is the value of the uint8_t& argument, whose  *)
(* new value is handed back in t; res is an int and is not truncated       *)
(* before it is compared with 0.                                           *)

op_add(m, a, val) ==
    ret([flags(m, b2i(a + val = 0), 0, b2i(check_add_half_carry(8, a, val)),
               b2i(check_add_carry(8, a, val))) EXCEPT !.t = u8(a + val)], 4)

op_adc(m, a, val) ==
    LET res == a + val + (IF carry(m) THEN 1 ELSE 0)
    IN  ret([flags(m, b2i(res = 0), 0, b2i(check_add_half_carry(8, a, val)),
                   b2i(check_add_carry(8, a, val))) EXCEPT !.t = u8(res)], 4)

op_sub(m, a, val) ==
    ret([flags(m, b2i(a - val = 0), 1, b2i(check_add_half_carry(8, a, val)),
               b2i(check_add_carry(8, a, val))) EXCEPT !.t = u8(a - val)], 4)

op_sbc(m, a, val) ==
    LET res == a - val + (IF carry(m) THEN 1 ELSE 0)
    IN  ret([flags(m, b2i(res = 0), 1, b2i(check_add_half_carry(8, a, val)),
                   b2i(check_add_carry(8, a, val))) EXCEPT !.t = u8(res)], 4)

op_and(m, a, val) ==
    ret([flags(m, b2i(And8(a, val) = 0), 0, 1, 0) EXCEPT !.t = And8(a, val)], 4)
op_or(m, a, val) ==
    ret([flags(m, b2i(Or8(a, val) = 0), 0, 0, 0) EXCEPT !.t = Or8(a, val)], 4)
op_xor(m, a, val) ==
    ret([flags(m, b2i(Xor8(a, val) = 0), 0, 0, 0) EXCEPT !.t = Xor8(a, val)], 4)
op_cp(m, a, val) ==
    ret([flags(m, b2i(a - val = 0), 1, b2i(check_sub_half_carry(8, a, val)),
               b2i(check_sub_carry(a, val))) EXCEPT !.t = a], 4)

op_inc(m, a) ==
    ret([flags(m, b2i(a + 1 = 0), 0, b2i(check_add_half_carry(8, a, 1)), 2)
            EXCEPT !.t = u8(a + 1)], 4)
\* op_dec computes res and the flags and does not assign reg
op_dec(m, a) ==
    ret([flags(m, b2i(a - 1 = 0), 1, b2i(check_sub_half_carry(8, a, 1)), 2)
            EXCEPT !.t = a], 4)

\* 16-bit ALU
op_add16(m, a, val) ==
    ret([flags(m, 2, 0, b2i(check_add_half_carry(16, a, val)),
               b2i(check_add_carry(16, a, val))) EXCEPT !.t = u16(a + val)], 8)

op_add_sp(m) ==
    LET f == fetch(flags(m, 0, 0, 2, 2))
        val == s8(f.t)
        neg == s8(u8(0 - val))
    IN  ret(IF val >= 0
            THEN [flags(f, 2, 2, b2i(check_add_half_carry(16, f.r.sp, val)),
                        b2i(check_add_carry(16, f.r.sp, val)))
                     EXCEPT !.r.sp = u16(@ + val)]
            ELSE [flags(f, 2, 2, b2i(check_sub_half_carry(16, f.r.sp, u16(neg))),
                        b2i(check_sub_carry(f.r.sp, u16(neg))))
                     EXCEPT !.r.sp = u16(@ - neg)],
            16)

op_inc16(m, rr) == ret(set16(m, rr, u16(get16(m, rr) + 1)), 8)
op_dec16(m, rr) == ret(set16(m, rr, u16(get16(m, rr) - 1)), 8)

---------------------------------------------------------------------------
(* cpu_ops.cpp: misc, rotates, shifts, bit operations                      *)

\* (reg & 0x0f << 4) | (reg & 0xf0 >> 4): << and >> bind tighter than &, so
\* this is (reg & 0xf0) | (reg & 0x0f), the unchanged value
op_swap(m, a) ==
    LET v == Or8(And8(a, \hF0), And8(a, \h0F))
    IN  ret([flags(m, b2i(v = 0), 0, 0, 0) EXCEPT !.t = v], 4)

op_swap_addr(m, addr) ==
    LET val == read(m, addr)
        v == (val % 16) * 16 + (val \div 16)
    IN  ret(flags(write(m, addr, v), b2i(v = 0), 0, 0, 0), 12)

\* a DAA that adds 6 whatever A holds
op_daa_add_6(m) ==
    ret([flags(m, b2i(u8(m.r.A + 6) = 0), 2, 0, 2) EXCEPT !.r.A = u8(m.r.A + 6)], 4)
op_daa(m) ==
    LET a0 == m.r.A
        hi == IF sub(m)
              THEN carry(m)
              ELSE carry(m) \/ a0 > \h99
        a1 == IF ~hi THEN a0
              ELSE IF sub(m) THEN u8(a0 - \h60) ELSE u8(a0 + \h60)
        lo == IF sub(m)
              THEN half_carry(m)
              ELSE half_carry(m) \/ (a1 % 16) > 9
        a2 == IF ~lo THEN a1
              ELSE IF sub(m) THEN u8(a1 - 6) ELSE u8(a1 + 6)
    IN  ret([flags(m, b2i(a2 = 0), 2, 0, IF hi THEN 1 ELSE 2) EXCEPT !.r.A = a2], 4)

op_cpl(m) == ret([flags(m, 2, 1, 1, 2) EXCEPT !.r.A = 255 - @], 4)
op_ccf(m) == ret(flags(m, 2, 0, 0, b2i(~carry(m))), 4)
op_scf(m) == ret(flags(m, 2, 0, 0, 1), 4)
op_nop(m) == ret(m, 4)

op_halt(m) == ret([m EXCEPT !.pipeline = Append(@, "halt")], 4)
op_stop(m) == ret(op_halt(m), 4)
op_di(m) == ret([m EXCEPT !.interrupts_enabled = FALSE], 4)
\* a variant of op_ei that switches IME on at once
op_ei_at_once(m) == ret([m EXCEPT !.interrupts_enabled = TRUE], 4)
op_ei(m) == ret([m EXCEPT !.pipeline = Append(@, "enable_interrupts")], 4)

\* op_rlc and op_rrc shift the carry flag in, op_rl and op_rr shift in 0
\* a rotation that moves bit 7 into bit 0 instead of the carry flag
op_rlc_circular(m, a) ==
    ret([flags(m, b2i(a = 0), 0, 0, BitOf(a, 7)) EXCEPT !.t = u8(a * 2) + BitOf(a, 7)], 4)
op_rlc(m, a) ==
    LET v == u8(a * 2) + (IF carry(m) THEN 1 ELSE 0)
    IN  ret([flags(m, b2i(v = 0), 0, 0, BitOf(a, 7)) EXCEPT !.t = v], 4)
op_rl(m, a) ==
    LET v == u8(a * 2)
    IN  ret([flags(m, b2i(v = 0), 0, 0, BitOf(a, 7)) EXCEPT !.t = v], 4)
op_rrc(m, a) ==
    LET v == (a \div 2) + (IF carry(m) THEN 128 ELSE 0)
    IN  ret([flags(m, b2i(v = 0), 0, 0, BitOf(a, 0)) EXCEPT !.t = v], 4)
op_rr(m, a) ==
    LET v == a \div 2
    IN  ret([flags(m, b2i(v = 0), 0, 0, BitOf(a, 0)) EXCEPT !.t = v], 4)
op_sla(m, a) ==
    LET v == u8(a * 2)
    IN  ret([flags(m, b2i(v = 0), 0, 0, BitOf(a, 7)) EXCEPT !.t = v], 4)
op_sra(m, a) ==
    LET v == (a \div 2) + 128 * BitOf(a, 7)
    IN  ret([flags(m, b2i(v = 0), 0, 0, BitOf(a, 0)) EXCEPT !.t = v], 4)
op_srl(m, a) ==
    LET v == a \div 2
    IN  ret([flags(m, b2i(v = 0), 0, 0, BitOf(a, 0)) EXCEPT !.t = v], 4)

op_bit(m, a, n) == ret([flags(m, b2i(BitOf(a, n) = 0), 0, 1, 2) EXCEPT !.t = a], 4)
op_set(m, a, n) == ret([m EXCEPT !.t = SetBitTo(a, n, TRUE)], 4)
op_res(m, a, n) == ret([m EXCEPT !.t = SetBitTo(a, n, FALSE)], 4)
\* op_bit, op_set and op_res on an address all call op_bit on the value read
\* and store it back
op_bit_addr(m, addr, n) == store_back(op_bit(m, read(m, addr), n), addr, 12)
op_set_addr(m, addr, n) == store_back(op_bit(m, read(m, addr), n), addr, 12)
op_res_addr(m, addr, n) == store_back(op_bit(m, read(m, addr), n), addr, 12)

---------------------------------------------------------------------------
(* cpu_ops.cpp: jumps, calls, returns                                      *)

cond_holds(m, cond) ==
    CASE cond = "NZ" -> ~zero(m)
      [] cond = "Z"  -> zero(m)
      [] cond = "NC" -> ~carry(m)
      [] cond = "C"  -> carry(m)

op_jp(m) == LET f == fetch16(m) IN ret([f EXCEPT !.r.pc = f.t], 12)
op_jp_addr(m, addr) == ret([m EXCEPT !.r.pc = addr], 4)
\* a conditional jump, call or return that is not taken fetches nothing
op_jp_cond(m, cond) == ret(IF cond_holds(m, cond) THEN op_jp(m) ELSE m, 12)

op_jr(m) == LET f == fetch(m) IN ret([f EXCEPT !.r.pc = u16(@ + s8(f.t))], 8)
op_jr_cond(m, cond) == ret(IF cond_holds(m, cond) THEN op_jr(m) ELSE m, 8)

op_call(m) ==
    LET f == fetch16(m)
    IN  ret([op_push(f, f.r.pc) EXCEPT !.r.pc = f.t], 12)
op_call_cond(m, cond) == ret(IF cond_holds(m, cond) THEN op_call(m) ELSE m, 12)

\* pc = mem->read(base): the byte stored at the vector, not the vector
op_rst(m, base) ==
    LET p == op_push(m, m.r.pc)
    IN  ret([p EXCEPT !.r.pc = read(p, base)], 32)

op_ret(m) == LET p == op_pop(m) IN ret([p EXCEPT !.r.pc = p.t], 8)
op_ret_cond(m, cond) == ret(IF cond_holds(m, cond) THEN op_ret(m) ELSE m, 8)
op_reti(m) == ret([op_ret(m) EXCEPT !.interrupts_enabled = TRUE], 8)

---------------------------------------------------------------------------
(* cpu.cpp: cpu::execute, the opcode dispatch                              *)

\* the operand named by three bits of an opcode; HL stands for the byte at
\* address HL
reg8 == <<"B", "C", "D", "E", "H", "L", "HL", "A">>
reg16 == <<"BC", "DE", "HL", "sp">>
stack16 == <<"BC", "DE", "HL", "AF">>
conditions == <<"NZ", "Z", "NC", "C">>

\* the uint8_t& argument of the operation that produced o takes its new value
assign(o, reg) == [o EXCEPT !.r[reg] = o.t]

\* rows 0x80..0xb8 of the table, on two values
op_alu(m, k, a, val) ==
    CASE k = 0 -> op_add(m, a, val)
      [] k = 1 -> op_adc(m, a, val)
      [] k = 2 -> op_sub(m, a, val)
      [] k = 3 -> op_sbc(m, a, val)
      [] k = 4 -> op_and(m, a, val)
      [] k = 5 -> op_xor(m, a, val)
      [] k = 6 -> op_or(m, a, val)
      [] k = 7 -> op_cp(m, a, val)

\* the (reg, addr) and _n overloads: they call the value overload and return
\* 8; those of op_sbc call op_sub
op_alu_ind(m, k, reg, val) ==
    ret(assign(op_alu(m, IF k = 3 THEN 2 ELSE k, m.r[reg], val), reg), 8)

\* rows 0x00..0x38 of the extended table, on a value
op_rot(m, k, a) ==
    CASE k = 0 -> op_rlc(m, a)
      [] k = 1 -> op_rrc(m, a)
      [] k = 2 -> op_rl(m, a)
      [] k = 3 -> op_rr(m, a)
      [] k = 4 -> op_sla(m, a)
      [] k = 5 -> op_sra(m, a)
      [] k = 6 -> op_swap(m, a)
      [] k = 7 -> op_srl(m, a)

\* return 4 + ...
plus4(o) == ret(o, 4 + o.ret)

\* case 0xcb: m has fetched ext_op
execute_ext(m, ext_op) ==
    LET col == reg8[(ext_op % 8) + 1]
        row == ext_op \div 8
        n == row % 8
        HL == get16(m, "HL")
    IN  plus4(
             IF col = "HL"
             THEN CASE row = 6 -> op_swap_addr(m, HL)
                    [] row < 8 /\ row # 6 -> store_back(op_rot(m, row, read(m, HL)), HL, 12)
                    [] row \in 8..15 -> op_bit_addr(m, HL, n)
                    [] row \in 16..23 -> op_res_addr(m, HL, n)
                    [] row \in 24..31 -> op_set_addr(m, HL, n)
             ELSE CASE row < 8 -> assign(op_rot(m, row, m.r[col]), col)
                    [] row \in 8..15 -> assign(op_bit(m, m.r[col], n), col)
                    [] row \in 16..23 -> assign(op_res(m, m.r[col], n), col)
                    [] row \in 24..31 -> assign(op_set(m, m.r[col], n), col))

\* cases 0x00..0x3f
execute_00(m, op) ==
    LET col == op % 8
        row == op \div 8
        reg == reg8[row + 1]
        rr == reg16[(row \div 2) + 1]
        HL == get16(m, "HL")
    IN  CASE col = 0 ->
               (CASE row = 0 -> op_nop(m)
                  [] row = 1 -> op_ld16_nn(m)
                  [] row = 2 -> LET f == fetch(m)
                                IN  IF f.t = 0 THEN op_stop(f) ELSE op_nop(f)
                  [] row = 3 -> op_jr(m)
                  [] row > 3 -> op_jr_cond(m, conditions[row - 3]))
          [] col = 1 ->
               IF row % 2 = 0
               THEN op_ld16(m, rr)
               ELSE LET o == op_add16(m, HL, get16(m, rr)) IN set16(o, "HL", o.t)
          [] col = 2 ->
               (CASE row = 0 -> op_ld_to_addr(m, get16(m, "BC"), m.r.A)
                  [] row = 1 -> op_ld_from_addr(m, "A", get16(m, "BC"))
                  [] row = 2 -> op_ld_to_addr(m, get16(m, "DE"), m.r.A)
                  [] row = 3 -> op_ld_from_addr(m, "A", get16(m, "DE"))
                  [] row = 4 -> op_ldi_HL(m)
                  [] row = 5 -> op_ldi_A(m)
                  [] row = 6 -> op_ldd_HL(m)
                  [] row = 7 -> op_ldd_A(m))
          [] col = 3 ->
               IF row % 2 = 0 THEN op_inc16(m, rr) ELSE op_dec16(m, rr)
          [] col = 4 ->
               IF reg = "HL"
               THEN store_back(op_inc(m, read(m, HL)), HL, 12)
               ELSE assign(op_inc(m, m.r[reg]), reg)
          [] col = 5 ->
               IF reg = "HL"
               THEN store_back(op_dec(m, read(m, HL)), HL, 12)
               ELSE assign(op_dec(m, m.r[reg]), reg)
          [] col = 6 ->
               IF reg = "HL" THEN op_ld_n_addr(m, HL) ELSE op_ld_n(m, reg)
          [] col = 7 ->
               (CASE row = 0 -> assign(op_rlc(m, m.r.A), "A")
                  [] row = 1 -> assign(op_rrc(m, m.r.A), "A")
                  [] row = 2 -> assign(op_rl(m, m.r.A), "A")
                  [] row = 3 -> assign(op_rr(m, m.r.A), "A")
                  [] row = 4 -> op_daa(m)
                  [] row = 5 -> op_cpl(m)
                  [] row = 6 -> op_scf(m)
                  [] row = 7 -> op_ccf(m))

\* cases 0x40..0x7f: 0x70..0x75 all store B
execute_40(m, op) ==
    LET src == reg8[(op % 8) + 1]
        dst == reg8[((op - \h40) \div 8) + 1]
        HL == get16(m, "HL")
    IN  IF dst = "HL"
        THEN IF op = \h76 THEN op_halt(m)
             ELSE op_ld_to_addr(m, HL, IF op = \h77 THEN m.r.A ELSE m.r.B)
        ELSE IF src = "HL" THEN op_ld_from_addr(m, dst, HL)
             ELSE op_ld(m, dst, m.r[src])

\* cases 0x80..0xbf: 0x80..0x84 add to H
execute_80(m, op) ==
    LET src == reg8[(op % 8) + 1]
        k == (op - \h80) \div 8
        dst == IF op < \h85 THEN "H" ELSE "A"
    IN  IF src = "HL"
        THEN op_alu_ind(m, k, dst, read(m, get16(m, "HL")))
        ELSE assign(op_alu(m, k, m.r[dst], m.r[src]), dst)

\* cases 0xc0..0xff
execute_c0(m, op) ==
    LET col == op % 8
        row == (op - \hC0) \div 8
        rr == stack16[(row \div 2) + 1]
    IN  CASE col = 0 ->
               (CASE row < 4 -> op_ret_cond(m, conditions[row + 1])
                  [] row = 4 -> op_ldh_n(m)
                  [] row = 5 -> op_add_sp(m)
                  [] row = 6 -> op_ldh_A(m)
                  [] row = 7 -> op_ld16_HL(m))
          [] col = 1 ->
               (CASE row % 2 = 0 -> LET o == op_pop(m) IN set16(o, rr, o.t)
                  [] row = 1 -> op_ret(m)
                  [] row = 3 -> op_reti(m)
                  [] row = 5 -> op_jp_addr(m, get16(m, "HL"))
                  [] row = 7 -> op_ld16_val(m, "sp", get16(m, "HL")))
          [] col = 2 ->
               (CASE row < 4 -> op_jp_cond(m, conditions[row + 1])
                  [] row = 4 -> op_ld_to_addr(m, \hFF00 + m.r.C, m.r.A)
                  [] row = 5 -> op_ld_to_nn(m, m.r.A)
                  [] row = 6 -> op_ld_from_addr(m, "A", \hFF00 + m.r.C)
                  [] row = 7 -> op_ld_n(m, "A"))
          [] col = 3 ->
               (CASE op = \hC3 -> op_jp(m)
                  [] op = \hCB -> LET f == fetch(m) IN execute_ext(f, f.t)
                  [] op = \hF3 -> op_di(m)
                  [] op = \hFB -> op_ei(m)
                  [] OTHER -> op_nop(m))
          [] col = 4 ->
               IF row < 4 THEN op_call_cond(m, conditions[row + 1]) ELSE op_nop(m)
          [] col = 5 ->
               (CASE row % 2 = 0 -> op_push(m, get16(m, rr))
                  [] row = 1 -> op_call(m)
                  [] OTHER -> op_nop(m))
          [] col = 6 ->
               LET f == fetch(m) IN op_alu_ind(f, row, "A", f.t)
          [] col = 7 -> op_rst(m, op - \hC7)

\* a dispatch that queues no further execute
execute_no_requeue(m, op) ==
    CASE op < \h40 -> execute_00(m, op)
      [] op \in \h40..\h7F -> execute_40(m, op)
      [] op \in \h80..\hBF -> execute_80(m, op)
      [] op > \hBF -> execute_c0(m, op)
\* cpu::execute: one more execute is queued first, then the opcode is
\* dispatched; the result carries the cycle count in ret
execute(m, op) ==
    LET q == [m EXCEPT !.pipeline = Append(@, "execute")]
    IN  CASE op < \h40 -> execute_00(q, op)
          [] op \in \h40..\h7F -> execute_40(q, op)
          [] op \in \h80..\hBF -> execute_80(q, op)
          [] op > \hBF -> execute_c0(q, op)

---------------------------------------------------------------------------
(* cpu.cpp: the interrupt step, the LCD and timer stubs, the run loop      *)

vblank_handler == \h40
lcd_stat_handler == \h48
timer_handler == \h50
serial_handler == \h58
joypad_handler == \h60

\* a variant of jump_addr that tests the bits from joypad down to vblank
jump_addr_reversed(requested) ==
    CASE BitOf(requested, 4) = 1 -> joypad_handler
      [] BitOf(requested, 4) = 0 /\ BitOf(requested, 3) = 1 -> serial_handler
      [] (requested \div 8) % 4 = 0 /\ BitOf(requested, 2) = 1 -> timer_handler
      [] (requested \div 4) % 8 = 0 /\ BitOf(requested, 1) = 1 -> lcd_stat_handler
      [] (requested \div 2) % 16 = 0 /\ BitOf(requested, 0) = 1 -> vblank_handler
      [] requested % 32 = 0 -> 0

\* the vector chosen from the requested bits alone; 0 when none is set
jump_addr(requested) ==
    CASE BitOf(requested, 0) = 1 -> vblank_handler
      [] BitOf(requested, 0) = 0 /\ BitOf(requested, 1) = 1 -> lcd_stat_handler
      [] requested % 4 = 0 /\ BitOf(requested, 2) = 1 -> timer_handler
      [] requested % 8 = 0 /\ BitOf(requested, 3) = 1 -> serial_handler
      [] requested % 16 = 0 /\ BitOf(requested, 4) = 1 -> joypad_handler
      [] requested % 32 = 0 -> 0

process_interrupts(m) ==
    IF ~m.interrupts_enabled THEN m
    ELSE LET ja == jump_addr(read(m, interrupt_flag))
         IN  IF ja # 0
             THEN [op_push([m EXCEPT !.interrupts_enabled = FALSE], m.r.pc)
                      EXCEPT !.r.pc = ja]
             ELSE m

\* a queue_interrupt without the test of interrupts_enabled
queue_interrupt_unguarded(m, i) ==
    write(m, interrupt_flag, Or8(read(m, interrupt_flag), i))
\* cpu::queue_interrupt(i), i the bit value of the interrupt
queue_interrupt(m, i) ==
    IF ~m.interrupts_enabled THEN m
    ELSE write(m, interrupt_flag, Or8(read(m, interrupt_flag), i))

update_lcd(m) ==
    IF BitOf(read(m, lcd_control), 7) = 0 THEN m ELSE queue_interrupt(m, 1)

div_inc_cycles == 4194304 \div 16384

\* an update_timers that starts the count again from 0
update_timers_restart(m) ==
    IF m.cycles >= div_inc_cycles
    THEN [write(m, divider, u8(read(m, divider) + 1)) EXCEPT !.cycles = 0]
    ELSE m
update_timers(m) ==
    IF m.cycles >= div_inc_cycles
    THEN [write(m, divider, u8(read(m, divider) + 1))
             EXCEPT !.cycles = @ % div_inc_cycles]
    ELSE m

\* cycles += execute(fetch())
execute_fetched(f) == execute(f, f.t)
add_cycles(e) == [e EXCEPT !.cycles = @ + e.ret]

\* the switch of the loop body of cpu::run, on the action taken off the queue;
\* update_timers leaves cycles below 256 on every turn, so the uint32_t sum
\* cycles += ... does not wrap
run_action(m, next) ==
    CASE next = "execute" ->
             add_cycles(execute_fetched(fetch(m)))
      [] next = "halt" -> [m EXCEPT !.r.pc = u16(@ - 1)]
      [] next = "disable_interrupts" ->
             [m EXCEPT !.interrupts_enabled = FALSE,
                       !.pipeline = Append(@, "execute")]
      [] next = "enable_interrupts" ->
             [m EXCEPT !.interrupts_enabled = TRUE,
                       !.pipeline = Append(@, "execute")]

---------------------------------------------------------------------------
(* The cartridge images the model is run on. A program is a sequence of    *)
(* bytes placed at the entry point 0x0100; everything else in the image    *)
(* is 0 unless a family says otherwise.                                    *)

entry_point == \h0100

image(prog, base) == [a \in base..(base + Len(prog) - 1) |-> prog[a - base + 1]]

\* LD rr,nn for rr = reg16[i + 1]
ld16(i, nn) == <<1 + 16 * i, nn % 256, nn \div 256>>
\* LD HL,addr ; LD (HL),n
store_n(addr, n) == ld16(2, addr) \o <<\h36, n>>

SomeBytes == {\h00, \h01, \h0F, \h80, \hFF}
SomeWords == {\h0000, \h1234, \hBEEF, \hFF0F}
SomeStacks == {\hFFFE, \hD000, \hC100, \hFF90, \h0100}
SomeTargets == {\h0200, \h1234, \h7FF0}
SomeFlags == (0..31) \cup {\hE0, \hE4, \hFF}
SomeEnables == {\h00, \h1F, \h01, \h1B, \hFF}

\* every opcode, with a few operand bytes, and every extended opcode
AnyOpImages ==
    { image(<<op, b1, b2>>, entry_point) :
          op \in 0..255, b1 \in {\h00, \h05, \hFE}, b2 \in {\h00, \hC1} }
    \cup { image(<<\hCB, ext>>, entry_point) : ext \in 0..255 }

\* LD SP,s ; LD rr,v ; PUSH rr ; POP rr   and, for AF,
\* LD SP,s ; LD A,a  ; PUSH AF ; POP AF
StackImages ==
    { image(ld16(3, s) \o ld16(i, v) \o <<\hC5 + 16 * i, \hC1 + 16 * i>>, entry_point) :
          s \in SomeStacks, i \in 0..2, v \in SomeWords }
    \cup { image(ld16(3, s) \o <<\h3E, a, \hF5, \hF1>>, entry_point) :
          s \in SomeStacks, a \in SomeBytes }
    \cup { image(ld16(3, s) \o <<\hC1 + 16 * i>>, entry_point) :
          s \in SomeStacks, i \in 0..3 }

\* LD SP,s ; CALL nn   with RET at nn
CallImages ==
    { image(ld16(3, s) \o <<\hCD, nn % 256, nn \div 256>>, entry_point)
          @@ image(<<\hC9>>, nn) :
          s \in SomeStacks, nn \in SomeTargets }

\* what follows once IF and IE are set up
Tails ==
    { <<\hFB, \h00, \h00>>, <<\hFB, \hFB, \h00>>, <<\hFB, \hF3, \h00>>,
      <<\hFB, \h76, \h00>>, <<\h76, \h00, \h00>>, <<\h76, \h76, \h00>>,
      <<\h10, \h00, \h00>>, <<\hD9, \h00, \h00>>, <<\hFB, \hD9, \h00>>,
      <<\h00, \hFB, \h00>> }

\* LD HL,0xFF0F ; LD (HL),f ; LD HL,0xFFFF ; LD (HL),e ; tail
InterruptImages ==
    { image(store_n(interrupt_flag, f) \o store_n(interrupt_enable, e) \o t,
            entry_point) :
          f \in SomeFlags, e \in SomeEnables, t \in Tails }

\* LD HL,0xFF0F ; LD (HL),f ; LD HL,0xFF40 ; LD (HL),c ; tail
LcdImages ==
    { image(store_n(interrupt_flag, f) \o store_n(lcd_control, c) \o t,
            entry_point) :
          f \in {\h00, \h02, \h10}, c \in {\h00, \h80, \h91}, t \in Tails }

AluBytes == {\h00, \h01, \h0F, \h10, \h20, \h80, \hF0, \hFF}
BcdBytes == {\h00, \h01, \h09, \h15, \h38, \h45, \h50, \h99}

\* LD A,a ; LD r,b ; ADD A,r      and the same with SUB r
AluImages ==
    { image(<<\h3E, a, \h06 + 8 * i, b, op + i>>, entry_point) :
          a \in AluBytes, b \in AluBytes, i \in 0..7, op \in {\h80, \h90} }

\* LD A,a ; ADD A,b ; DAA      and      LD A,a ; OR A ; ADD A,0 ; DAA
DaaImages ==
    { image(<<\h3E, a, \hC6, b, \h27>>, entry_point) :
          a \in BcdBytes, b \in BcdBytes }
    \cup { image(<<\h3E, a, \hB7, \hC6, \h00, \h27>>, entry_point) :
          a \in 0..\h99 }

\* LD r,x ; RLC r ; RRC r      with the carry flag set, and after OR A
\* with the carry flag clear
RotImages ==
    { image(<<\h06 + 8 * i, x>> \o pre \o <<\hCB, i, \hCB, 8 + i>>, entry_point) :
          i \in 0..7, x \in {\h00, \h01, \h5A, \h80, \hFF},
          pre \in {<<>>, <<\hB7>>} }

\* LD A,a ; LD r,b ; ADC A,r   and   LD A,a ; ADC A,b   with the carry flag
\* set, and after OR A with the carry flag clear; the same with SBC
AdcImages ==
    { image(<<\h3E, a, \h06 + 8 * i, b>> \o pre \o <<op + i>>, entry_point) :
          a \in AluBytes, b \in AluBytes, i \in 0..7, op \in {\h88, \h98},
          pre \in {<<>>, <<\hB7>>} }
    \cup { image(<<\h3E, a>> \o pre \o <<op, b>>, entry_point) :
          a \in AluBytes, b \in AluBytes, op \in {\hCE, \hDE},
          pre \in {<<>>, <<\hB7>>} }

\* LD r,x ; INC r   and   LD r,x ; DEC r   with the carry flag set, and after
\* OR A with the carry flag clear
IncImages ==
    { image(<<\h06 + 8 * i, x>> \o pre \o <<op + 8 * i>>, entry_point) :
          x \in AluBytes, i \in 0..7, op \in {\h04, \h05}, pre \in {<<>>, <<\hB7>>} }

AluWords == {\h0000, \h0001, \h00FF, \h0100, \h0F00, \h0FFF, \h8000, \hFFFF}

\* LD HL,h ; LD rr,v ; ADD HL,rr
Add16Images ==
    { image(ld16(2, h) \o ld16(i, v) \o <<\h09 + 16 * i>>, entry_point) :
          h \in AluWords, v \in AluWords, i \in 0..3 }

\* LD SP,s ; LD HL,SP+d
LdHlSpImages ==
    { image(ld16(3, s) \o <<\hF8, d>>, entry_point) :
          s \in SomeStacks \cup {\h00FF, \hC0F8},
          d \in {\h00, \h01, \h08, \h0F, \h7F, \h80, \hF0, \hFF} }

\* LD r,x ; RES n,r   and   LD r,x ; SET n,r   for every operand, (HL) in the
\* header included, and the same on (HL) in work RAM
SetResImages ==
    { image(<<\h06 + 8 * (ext % 8), x, \hCB, ext>>, entry_point) :
          x \in {\h00, \h5A, \hFF}, ext \in \h80..\hFF }
    \cup { image(store_n(\hC000, x) \o <<\hCB, \h86 + 8 * k>>, entry_point) :
          x \in {\h00, \h5A, \hFF}, k \in 0..15 }

\* LD A,a ; LDH (n),A ; LDH A,(n)
LdhImages ==
    { image(<<\h3E, a, \hE0, n, \hF0, n>>, entry_point) :
          a \in {\h00, \h5A, \hFF}, n \in {\h42, \h80, \hFE} }

\* loops that write nothing: JR -2 ; JP 0x0100 ; LD BC,nn then JR -5
LongImages ==
    { image(<<\h18, \hFE, \h00>>, entry_point),
      image(<<\hC3, \h00, \h01>>, entry_point),
      image(<<\h01, \h34, \h12, \h18, \hFB>>, entry_point) }

\* six instructions out of EI, NOP and DI, and EI after HALT
EiImages ==
    { image(<<a, b, c, d, e, f>>, entry_point) :
          a \in {\hFB, \h00}, b \in {\hFB, \h00, \hF3}, c \in {\hFB, \h00, \hF3},
          d \in {\hFB, \h00, \hF3}, e \in {\hFB, \h00}, f \in {\h00} }
    \cup { image(<<\h76, \hFB, \h00, \h00>>, entry_point),
           image(<<\hFB, \h76, \hFB, \h00, \h00>>, entry_point) }

---------------------------------------------------------------------------
(* The state machine.                                                      *)
(*   run_pc   where the CPU thread is in cpu::run: "entry" (invoked),      *)
(*            "start" (execute queued, running not yet stored), "loop"     *)
(*            (at the loop test), "returned"                               *)
(*   host     the UI thread: its place in queue_interrupt, the value it    *)
(*            read from IF, and a record of what it has done               *)
(*   hist     a record of the last loop turn: the action taken, the opcode *)
(*            executed, and the machine before the turn (pre), after the   *)
(*            switch (mid), after process_interrupts (pi) and after        *)
(*            update_lcd (lcd)                                             *)
(*   bus      a record of the last access made to the memory bus directly: *)
(*            the operation, its address, the value written or read, and   *)
(*            whether it stayed inside the storage it indexes              *)

\* the bytes a read outside the cartridge buffer may yield
OracleBytes == {\h00, \hFF}

\* registers after construction: registers.hpp and the table of models.cpp
\* for model::original
initial_registers ==
    [A |-> \h01, F |-> \hB0, B |-> \h00, C |-> \h13, D |-> \h00, E |-> \hD8,
     H |-> \h01, L |-> \h4D, sp |-> \hFFFE, pc |-> \h0100]

\* memory::memory: every array zeroed; the image is cart.data
initial_memory(img) ==
    [cart_data |-> img, cart_size |-> \h8000, vram |-> <<>>,
     wram_bank_0 |-> <<>>, wram_bank_n |-> <<>>, io_registers |-> <<>>,
     stack |-> <<>>, interrupt_enable_register |-> 0]

Machine(ub) ==
    [r |-> r, mem |-> mem, interrupts_enabled |-> interrupts_enabled,
     pipeline |-> pipeline, cycles |-> cycles, t |-> 0, ret |-> 0,
     ub |-> ub, oob |-> oob]

snap(m) == [r |-> m.r, mem |-> m.mem, interrupts_enabled |-> m.interrupts_enabled,
            pipeline |-> m.pipeline]

no_turn ==
    [action |-> "none", op |-> 0 - 1, vector |-> 0, ei |-> "none",
     since_ei |-> 0 - 1, step |-> 0, total |-> 0,
     prev_action |-> "none", prev_op |-> 0 - 1, prev_vector |-> 0,
     prev_ei |-> "none"]

idle_host ==
    [pc |-> "idle", kind |-> 0, val |-> 0, calls |-> 0, stopped |-> FALSE,
     before |-> 0, after |-> 0, done |-> FALSE]

no_bus ==
    [op |-> "none", addr |-> 0, val |-> 0, ops |-> 0, in_bounds |-> TRUE,
     disabled |-> FALSE]
\* no header function called yet; actual is the caller's variable for the
\* out-parameter, not yet written
no_header ==
    [call |-> "none", result |-> 0, null |-> TRUE, actual |-> 0 - 1, calls |-> 0]

\* the state after construction, for a cartridge file of one of the sizes
InitSized(imgs, sizes) ==
    /\ \E img \in imgs, size \in sizes :
         mem = [initial_memory([a \in {x \in DOMAIN img : x < size} |-> img[a]])
                   EXCEPT !.cart_size = size]
    /\ r = initial_registers
    /\ interrupts_enabled = FALSE
    /\ pipeline = <<>>
    /\ running = FALSE
    /\ cycles = 0
    /\ run_pc = "entry"
    /\ host = idle_host
    /\ hist = no_turn
    /\ turns = 0
    /\ oob = FALSE
    /\ bus = no_bus
    /\ header = no_header

\* a 32 KiB cartridge
InitWith(imgs) == InitSized(imgs, {\h8000})

Init ==
    \/ InitWith(AnyOpImages)
    \/ InitWith(StackImages)
    \/ InitWith(CallImages)
    \/ InitWith(InterruptImages)
    \/ InitWith(LcdImages)
    \/ InitWith(AluImages)
    \/ InitWith(DaaImages)
    \/ InitWith(RotImages)
    \/ InitWith(EiImages)
    \/ InitWith(AdcImages)
    \/ InitWith(IncImages)
    \/ InitWith(Add16Images)
    \/ InitWith(LdHlSpImages)
    \/ InitWith(SetResImages)
    \/ InitWith(LdhImages)
    \/ InitWith(LongImages)

\* cpu::run, pipeline.push(action::execute)
RunEnter ==
    /\ run_pc = "entry"
    /\ pipeline' = Append(pipeline, "execute")
    /\ run_pc' = "start"
    /\ UNCHANGED <<r, mem, interrupts_enabled, running, cycles, host, hist, turns, oob, bus, header>>

\* cpu::run, running = true
RunStart ==
    /\ run_pc = "start"
    /\ running' = TRUE
    /\ run_pc' = "loop"
    /\ UNCHANGED <<r, mem, interrupts_enabled, pipeline, cycles, host, hist, turns, oob, bus, header>>

\* EI tracking for the last turn: "executed" once an EI has run with IME
\* false and no enable_interrupts queued, "next_done" once an instruction
\* has run after it, "none" again once IME has been switched on
ei_after(m, next, op, a) ==
    IF next = "enable_interrupts" THEN "none"
    ELSE IF next # "execute" THEN hist.ei
    ELSE IF hist.ei = "executed" THEN "next_done"
    ELSE IF /\ op = \hFB
            /\ ~m.interrupts_enabled
            /\ \A i \in 1..Len(m.pipeline) : m.pipeline[i] # "enable_interrupts"
         THEN "executed"
    ELSE IF a.interrupts_enabled THEN "none"
    ELSE hist.ei

\* the number of instructions executed since the latest EI, up to 2; - 1
\* when no EI has been executed, or a DI or an interrupt dispatch has come
\* after it
since_ei_after(next, op, a, p) ==
    IF p.r.pc # a.r.pc \/ p.interrupts_enabled # a.interrupts_enabled THEN 0 - 1
    ELSE IF next # "execute" THEN hist.since_ei
    ELSE IF op = \hFB THEN 0
    ELSE IF op = \hF3 \/ hist.since_ei < 0 THEN 0 - 1
    ELSE IF hist.since_ei = 0 THEN 1
    ELSE 2

\* the record kept of a turn: m is the machine at its start, a the machine
\* after the switch, p the machine after process_interrupts
turn_hist(m, next, op, a, p) ==
    [action |-> next,
     op |-> IF next = "execute" THEN op ELSE 0 - 1,
     pre |-> snap(m), mid |-> snap(a), pi |-> snap(p),
     lcd |-> snap(update_lcd(p)),
     vector |-> IF p.r.pc # a.r.pc \/ p.mem # a.mem
                    \/ p.interrupts_enabled # a.interrupts_enabled
                THEN p.r.pc ELSE 0,
     ei |-> ei_after(m, next, op, a),
     since_ei |-> since_ei_after(next, op, a, p),
     step |-> a.cycles - m.cycles,
     total |-> hist.total + (a.cycles - m.cycles),
     prev_action |-> hist.action, prev_op |-> hist.op,
     prev_vector |-> hist.vector, prev_ei |-> hist.ei,
     prev_pre |-> IF hist.action = "none" THEN snap(m) ELSE hist.pre]

\* process_interrupts(); update_lcd(); update_timers();
after_interrupts(m, next, op, a, p) ==
    [z |-> update_timers(update_lcd(p)), hist |-> turn_hist(m, next, op, a, p)]
after_switch(m, next, op, a) ==
    after_interrupts(m, next, op, a, process_interrupts(a))

\* the body of the loop of cpu::run: pipeline.front(), pipeline.pop(), the
\* switch, and the three steps after it
loop_body(m) ==
    after_switch(m, Head(m.pipeline), read(m, m.r.pc),
                 run_action([m EXCEPT !.pipeline = Tail(@)], Head(m.pipeline)))

TurnTo(res) ==
    /\ r' = res.z.r
    /\ mem' = res.z.mem
    /\ interrupts_enabled' = res.z.interrupts_enabled
    /\ pipeline' = res.z.pipeline
    /\ cycles' = res.z.cycles
    /\ oob' = res.z.oob
    /\ hist' = res.hist

\* the loops are followed for more turns than the other programs
TurnBound == IF mem.cart_data \in LongImages THEN MaxLongTurns ELSE MaxTurns

\* one iteration of the loop of cpu::run, entered with running true
Turn ==
    /\ run_pc = "loop"
    /\ running
    /\ turns < TurnBound
    /\ pipeline # <<>>
    /\ \E ub \in OracleBytes : TurnTo(loop_body(Machine(ub)))
    /\ turns' = turns + 1
    /\ UNCHANGED <<running, run_pc, host, bus, header>>

Next == RunEnter \/ RunStart \/ Turn

Spec == Init /\ [][Next]_vars

---------------------------------------------------------------------------
(* The UI thread (main.cpp): it calls cpu::stop() once, on SDL_QUIT, and   *)
(* may call cpu::queue_interrupt while the CPU thread is in cpu::run.      *)
(* Neither call takes a lock; the read and the write of IF inside          *)
(* queue_interrupt are separate steps.                                     *)

Kinds == {1, 2, 4, 8, 16}

\* LD HL,0xFF0F ; EI ; NOP ; LD (HL),n      the CPU stores to IF itself
\* LD HL,0xFF40 ; LD (HL),0x80 ; EI ; NOP   the LCD stub requests vblank
HostImages ==
    { image(ld16(2, interrupt_flag) \o <<\hFB, \h00, \h36, n>>, entry_point) :
          n \in {\h00, \h02, \h10} }
    \cup { image(store_n(lcd_control, \h80) \o <<\hFB, \h00, \h00>>, entry_point) }

InitHost == InitWith(HostImages)

\* cpu::stop
Stop ==
    /\ host.pc = "idle"
    /\ ~host.stopped
    /\ running' = FALSE
    /\ host' = [host EXCEPT !.stopped = TRUE]
    /\ UNCHANGED <<r, mem, interrupts_enabled, pipeline, cycles, run_pc, hist, turns, oob, bus, header>>

\* cpu::run, the loop test found running false
RunReturn ==
    /\ run_pc = "loop"
    /\ ~running
    /\ run_pc' = "returned"
    /\ UNCHANGED <<r, mem, interrupts_enabled, pipeline, running, cycles, host, hist, turns, oob, bus, header>>

\* cpu::queue_interrupt, if (!interrupts_enabled) return;
HostQueueBegin ==
    /\ host.pc = "idle"
    /\ host.calls < MaxHostCalls
    /\ \E k \in Kinds :
         host' = [host EXCEPT !.calls = @ + 1, !.kind = k, !.done = FALSE,
                              !.pc = IF interrupts_enabled THEN "qi_read" ELSE "idle"]
    /\ UNCHANGED <<r, mem, interrupts_enabled, pipeline, running, cycles, run_pc, hist, turns, oob, bus, header>>

\* cpu::queue_interrupt, auto val = mem->read(memory::interrupt_flag)
HostQueueRead ==
    /\ host.pc = "qi_read"
    /\ host' = [host EXCEPT !.val = read(Machine(0), interrupt_flag), !.pc = "qi_write"]
    /\ UNCHANGED <<r, mem, interrupts_enabled, pipeline, running, cycles, run_pc, hist, turns, oob, bus, header>>

\* cpu::queue_interrupt, val |= i; mem->write(memory::interrupt_flag, val)
HostQueueWrite ==
    /\ host.pc = "qi_write"
    /\ mem' = write(Machine(0), interrupt_flag, Or8(host.val, host.kind)).mem
    /\ host' = [host EXCEPT !.pc = "idle", !.done = TRUE,
                            !.before = read(Machine(0), interrupt_flag),
                            !.after = Or8(host.val, host.kind)]
    /\ UNCHANGED <<r, interrupts_enabled, pipeline, running, cycles, run_pc, hist, turns, oob, bus, header>>

NextHost ==
    \/ RunEnter \/ RunStart \/ Turn \/ RunReturn
    \/ Stop \/ HostQueueBegin \/ HostQueueRead \/ HostQueueWrite

SpecHost == InitHost /\ [][NextHost]_vars

---------------------------------------------------------------------------
(* The memory bus on its own: memory::read, write and write16 called on a  *)
(* freshly constructed memory, for cartridges of two sizes.                *)

MaxBusOps == 2

BusAddrs ==
    {\h0000, \h00FF, \h0100, \h3FFF, \h4000, \h8000, \hA000, \hC000,
     \hCFFF, \hDDFF, \hE000, \hFDFF, \hFF50, \hFF80, \hFFFE}
BusBytes == {\h00, \hA5}
BusWords == {\hBEEF, \h0034}
\* the file sizes load_cart reserves room for
CartSizes == {\h0150, \h8000}
BusImage ==
    image(<<\hAA>>, \h0000) @@ image(<<\h55, \hC3>>, \h00FF)
        @@ image(<<\h77, \h78>>, \h3FFF)

\* whether memory::read(addr) indexes inside the storage it reads
read_in_bounds(m, addr) ==
    IF addr < \h4000
    THEN (addr < \h0100 /\ boot_rom_visible(m)) \/ addr < m.mem.cart_size
    ELSE (addr < \h8000 \/ (\hA000 <= addr /\ addr < \hC000))
             => addr < m.mem.cart_size

InitBus == InitSized({BusImage}, CartSizes)

\* a machine for the bus alone, on the stored memory mm
BusMachine(mm, ub) == [Machine(ub) EXCEPT !.mem = mm, !.oob = FALSE]

\* disabled records that write has stored a non-zero byte at 0xFF50
BusDone(res, op, addr, val, inb) ==
    /\ mem' = res.mem
    /\ oob' = (oob \/ res.oob)
    /\ bus' = [op |-> op, addr |-> addr, val |-> val, ops |-> bus.ops + 1,
               in_bounds |-> inb,
               disabled |-> bus.disabled \/ (op = "write" /\ addr = \hFF50 /\ val # 0)]
    /\ UNCHANGED <<r, interrupts_enabled, pipeline, running, cycles, run_pc,
                   host, hist, turns, header>>

\* memory::read(addr)
BusRead ==
    /\ bus.ops < MaxBusOps
    /\ \E addr \in BusAddrs, ub \in OracleBytes :
         BusDone(BusMachine(mem, ub), "read", addr,
                 read(BusMachine(mem, ub), addr),
                 read_in_bounds(BusMachine(mem, ub), addr))

\* memory::write(addr, val)
BusWrite ==
    /\ bus.ops < MaxBusOps
    /\ \E addr \in BusAddrs, val \in BusBytes :
         BusDone(write(BusMachine(mem, 0), addr, val), "write", addr, val,
                 ~write(BusMachine(mem, 0), addr, val).oob)

\* memory::write16(addr, val)
BusWrite16 ==
    /\ bus.ops < MaxBusOps
    /\ \E addr \in BusAddrs, val \in BusWords :
         BusDone(write16(BusMachine(mem, 0), addr, val), "write16", addr, val,
                 ~write16(BusMachine(mem, 0), addr, val).oob)

NextBus == BusRead \/ BusWrite \/ BusWrite16

SpecBus == InitBus /\ [][NextBus]_vars

---------------------------------------------------------------------------
(* cartridge.cpp: the header decoder, called on a loaded cartridge         *)
(* (data.size() >= 0x150).  A size_t is written as its four 16-bit limbs,  *)
(* least significant first; an int as the two low limbs, sign-extended     *)
(* when it is converted.                                                   *)

MaxRomSizeCode == 8
MaxHeaderCalls == 1

\* the int 2^k << count for count < 32, converted to size_t
shl_int(k, count) ==
    IF k + count >= 32 THEN <<0, 0, 0, 0>>
    ELSE IF k + count = 31 THEN <<0, \h8000, \hFFFF, \hFFFF>>
    ELSE IF k + count >= 16 THEN <<0, 2 ^ (k + count - 16), 0, 0>>
    ELSE <<2 ^ (k + count), 0, 0, 0>>

\* 2^k << count for a count held in a size_t: a count of 32 or more is
\* undefined, and the build either shifts by the count's low five bits or
\* shifts every bit out
shl(k, count, u) ==
    IF count[2] = 0 /\ count[3] = 0 /\ count[4] = 0 /\ count[1] < 32
    THEN shl_int(k, count[1])
    ELSE IF u = "masked" THEN shl_int(k, count[1] % 32)
    ELSE shl_int(k, 32)

ShiftOutcomes == {"masked", "zero"}

\* 2 << shift
num_rom_banks(m, u) == shl(1, <<cart_at(m, \h148), 0, 0, 0>>, u)

\* 0x8000 << banks
rom_size(m, u) == shl(15, num_rom_banks(m, u), u)

\* std::copy of [data.begin() + 0x104, data.begin() + 0x133) into a zeroed
\* array of 0x30 bytes
nintendo_logo(m) ==
    [i \in 1..48 |-> IF \h104 + i - 1 < \h133 THEN cart_at(m, \h104 + i - 1) ELSE 0]

expect ==
    <<\hCE, \hED, \h66, \h66, \hCC, \h0D, \h00, \h0B, \h03, \h73, \h00, \h83,
      \h00, \h0C, \h00, \h0D, \h00, \h08, \h11, \h1F, \h88, \h89, \h00, \h0E,
      \hDC, \hCC, \h6E, \hE6, \hDD, \hDD, \hD9, \h99, \hBB, \hBB, \h67, \h63,
      \h6E, \h0E, \hEC, \hCC, \hDD, \hDC, \h99, \h9F, \hBB, \hB9, \h33, \h3E>>

nintendo_logo_valid(m) == nintendo_logo(m) = expect

\* the loop of header_checksum_valid from index i on
RECURSIVE header_checksum_loop(_, _, _)
\* a loop that leaves the "- 1" out
RECURSIVE header_checksum_loop_no_dec(_, _, _)
header_checksum_loop_no_dec(m, i, sum) ==
    IF i <= \h014C
    THEN header_checksum_loop_no_dec(m, i + 1, u8(sum - cart_at(m, i)))
    ELSE sum
header_checksum_loop(m, i, sum) ==
    IF i <= \h014C
    THEN header_checksum_loop(m, i + 1, u8(sum - cart_at(m, i) - 1))
    ELSE sum

\* null tells whether actual is nullptr; out is the caller's variable
header_checksum_store(m, sum, null, out) ==
    [ret |-> sum = cart_at(m, \h014D), actual |-> IF null THEN out ELSE sum]
header_checksum_valid(m, null, out) ==
    header_checksum_store(m, header_checksum_loop(m, \h0134, 0), null, out)

\* headers: a logo, the bytes 0x134..0x14C filled with one value around the
\* ROM size code at 0x148, and a checksum byte at 0x14D
LogoBytes ==
    {expect, [expect EXCEPT ![1] = 0], [expect EXCEPT ![47] = 0],
     [expect EXCEPT ![48] = 0], [i \in 1..48 |-> 0]}
TitleFills == {\h00, \h41, \hFF}
ChecksumBytes == {\h00} \cup (190..255)
HeaderImages ==
    { image(logo, \h104)
          @@ image([i \in 1..25 |-> IF i = 21 THEN c ELSE fill], \h134)
          @@ image(<<k>>, \h14D) :
          logo \in LogoBytes, fill \in TitleFills, c \in 0..MaxRomSizeCode,
          k \in ChecksumBytes }

InitCart == InitSized(HeaderImages, CartSizes)

Called(name, result, null, actual) ==
    /\ header.calls < MaxHeaderCalls
    /\ header' = [call |-> name, result |-> result, null |-> null,
                  actual |-> actual, calls |-> header.calls + 1]
    /\ UNCHANGED <<r, mem, interrupts_enabled, pipeline, running, cycles,
                   run_pc, host, hist, turns, oob, bus>>

CallHeaderChecksumValid ==
    \E ub \in OracleBytes, null \in BOOLEAN :
        Called("header_checksum_valid",
               header_checksum_valid(Machine(ub), null, header.actual).ret, null,
               header_checksum_valid(Machine(ub), null, header.actual).actual)

CallNumRomBanks ==
    \E ub \in OracleBytes, u \in ShiftOutcomes :
        Called("num_rom_banks", num_rom_banks(Machine(ub), u), TRUE, header.actual)

CallRomSize ==
    \E ub \in OracleBytes, u \in ShiftOutcomes :
        Called("rom_size", rom_size(Machine(ub), u), TRUE, header.actual)

CallNintendoLogoValid ==
    \E ub \in OracleBytes :
        Called("nintendo_logo_valid", nintendo_logo_valid(Machine(ub)), TRUE,
               header.actual)

NextCart ==
    CallHeaderChecksumValid \/ CallNumRomBanks \/ CallRomSize \/ CallNintendoLogoValid

SpecCart == InitCart /\ [][NextCart]_vars

---------------------------------------------------------------------------
(* Properties.                                                             *)

\* IF and IE as a snapshot holds them
IFof(sn) == read(sn, interrupt_flag)
IEof(sn) == read(sn, interrupt_enable)

\* an address of work RAM or of the high RAM behind 0xFF80
InRam(a) == a \in \hC000..\hDFFF \/ a \in \hFF80..\hFFFE
StackInRam(sp) == InRam(sp) /\ InRam(u16(sp - 1)) /\ InRam(u16(sp - 2))

Executed(op) == hist.action = "execute" /\ hist.op = op
ExecutedBefore(op) ==
    hist.prev_action = "execute" /\ hist.prev_op = op /\ hist.prev_vector = 0

\* C1: an instruction executed from a state in which the low nibble of F
\* is 0 leaves the low nibble of F 0.
C1_FlagLowNibbleStaysZero ==
    (hist.action = "execute" /\ hist.pre.r.F % 16 = 0) => hist.mid.r.F % 16 = 0

\* C2: PUSH rr immediately followed by POP rr, with SP in writable RAM,
\* leaves rr at the value it had before the PUSH (for AF with the low nibble
\* of F masked to 0) and SP at its value before the PUSH.
C2_PushPopRestores ==
    \A i \in 1..4 :
        ( /\ Executed(\hC1 + 16 * (i - 1))
          /\ ExecutedBefore(\hC5 + 16 * (i - 1))
          /\ StackInRam(hist.prev_pre.r.sp) )
        => /\ get16(hist.mid, stack16[i])
                = (IF i = 4
                   THEN get16(hist.prev_pre, "AF") - (hist.prev_pre.r.F % 16)
                   ELSE get16(hist.prev_pre, stack16[i]))
           /\ hist.mid.r.sp = hist.prev_pre.r.sp

\* C3: CALL nn at address p followed by RET as the next executed
\* instruction, with SP in writable RAM, leaves PC = p + 3 and SP at its
\* value before the CALL.
C3_CallRetReturns ==
    (Executed(\hC9) /\ ExecutedBefore(\hCD) /\ StackInRam(hist.prev_pre.r.sp))
    => /\ hist.mid.r.pc = u16(hist.prev_pre.r.pc + 3)
       /\ hist.mid.r.sp = hist.prev_pre.r.sp

\* C4: when the interrupt step dispatches an interrupt it clears that
\* interrupt's bit in IF and leaves the other bits of IF as they were.
C4_DispatchClearsRequest ==
    hist.vector # 0
    => IFof(hist.pi) = SetBitTo(IFof(hist.mid), (hist.vector - \h40) \div 8, FALSE)

\* C5: with IME true and no interrupt both requested in IF and enabled in
\* IE, the interrupt step leaves PC, SP, IME and IF unchanged.
C5_DisabledNotDispatched ==
    ( /\ hist.action # "none"
      /\ hist.mid.interrupts_enabled
      /\ And8(IFof(hist.mid), IEof(hist.mid)) % 32 = 0 )
    => /\ hist.pi.r.pc = hist.mid.r.pc
       /\ hist.pi.r.sp = hist.mid.r.sp
       /\ hist.pi.interrupts_enabled
       /\ IFof(hist.pi) = IFof(hist.mid)

\* the vector of the lowest set bit among bits 0..4 of f
C6_Vector(f) == \h40 + 8 * (CHOOSE k \in 0..4 : BitOf(f, k) = 1 /\ f % (2 ^ k) = 0)

\* C6: with IME true, all five interrupts enabled in IE and some of IF bits
\* 0..4 set, the interrupt step sets IME false and PC to the vector of the
\* highest-priority requested interrupt (vblank 0x40, lcd-stat 0x48, timer
\* 0x50, serial 0x58, joypad 0x60); with IME false it changes nothing.
C6_PriorityDispatch ==
    hist.action # "none" =>
        /\ ( /\ hist.mid.interrupts_enabled
             /\ IEof(hist.mid) % 32 = 31
             /\ IFof(hist.mid) % 32 # 0 )
           => /\ ~hist.pi.interrupts_enabled
              /\ hist.pi.r.pc = C6_Vector(IFof(hist.mid))
        /\ ~hist.mid.interrupts_enabled => hist.pi = hist.mid

\* a dispatch to the lcd-stat vector while serial and joypad are requested too
C6_Witness ==
    /\ hist.action # "none"
    /\ hist.mid.interrupts_enabled
    /\ IEof(hist.mid) % 32 = 31
    /\ IFof(hist.mid) % 32 = 26
    /\ hist.pi.r.pc = lcd_stat_handler
    /\ ~hist.pi.interrupts_enabled

\* C7: the loop turn after the one that executed HALT is a halt turn, which
\* leaves the registers but PC and the memory alone, as long as no interrupt
\* is both requested in IF and enabled in IE.
C7_HaltStaysHalted ==
    ( /\ ExecutedBefore(\h76)
      /\ hist.action # "none"
      /\ And8(IFof(hist.pre), IEof(hist.pre)) % 32 = 0 )
    => hist.action = "halt"

\* C8: no interrupt is dispatched in the turn that executes EI (from IME
\* false, with no enabling already under way), nor in any turn before an
\* instruction has been executed after that EI.
C8_EiTakesEffectLater == hist.vector # 0 => hist.ei # "executed"

\* an interrupt requested and enabled all along is dispatched in the turn
\* after the instruction that followed EI
C8_Witness ==
    /\ hist.vector # 0
    /\ hist.prev_ei = "next_done"
    /\ hist.action = "enable_interrupts"
    /\ ExecutedBefore(\h00)
    /\ And8(IFof(hist.pre), IEof(hist.pre)) % 32 # 0

\* C9: once stop() has been called, run() finds running false at its loop
\* test, whenever stop() was called after run() was invoked.
C9_StopNotLost == (host.stopped /\ run_pc = "loop") => ~running

\* C10: when a queue_interrupt(k) of the host completes, IF holds what the
\* CPU had left in it, with bit k added.
C10_QueueInterruptSerialized == host.done => host.after = Or8(host.before, host.kind)

\* the memory of snapshot a is that of snapshot b, the I/O register at
\* 0xFF00 + cell set aside
SameMemoryBut(b, a, cell) ==
    /\ [a.mem EXCEPT !.io_registers = <<>>] = [b.mem EXCEPT !.io_registers = <<>>]
    /\ \A i \in ((DOMAIN a.mem.io_registers) \cup (DOMAIN b.mem.io_registers)) \ {cell} :
           AtOr(a.mem.io_registers, i, 0) = AtOr(b.mem.io_registers, i, 0)

\* what queue_interrupt(k) is to do, from b to a
QueueInterruptEffect(b, a, k) ==
    /\ a.r = b.r
    /\ a.interrupts_enabled = b.interrupts_enabled
    /\ a.pipeline = b.pipeline
    /\ SameMemoryBut(b, a, \h0F)
    /\ IFof(a) = IF b.interrupts_enabled THEN Or8(IFof(b), k) ELSE IFof(b)

\* C11: queue_interrupt(kind) leaves IF, the memory and the CPU state as
\* they are when IME is false, and when IME is true sets IF to IF OR the bit
\* of kind and changes nothing else; for every kind on every state, and for
\* the call the LCD step makes in a loop turn.
C11_QueueInterruptFrame ==
    /\ \A k \in Kinds :
          /\ QueueInterruptEffect(Machine(0), queue_interrupt(Machine(0), k), k)
          /\ queue_interrupt(Machine(0), k).cycles = cycles
    /\ (hist.action # "none" /\ BitOf(read(hist.pi, lcd_control), 7) = 1)
          => QueueInterruptEffect(hist.pi, hist.lcd, 1)

\* the LCD step of a loop turn has requested vblank, with IME true and the
\* vblank bit of IF clear before
C11_Witness ==
    /\ hist.action # "none"
    /\ BitOf(read(hist.pi, lcd_control), 7) = 1
    /\ hist.pi.interrupts_enabled
    /\ BitOf(IFof(hist.pi), 0) = 0
    /\ IFof(hist.lcd) = IFof(hist.pi) + 1
    /\ hist.prev_action # "none"

\* VRAM, work RAM, echo RAM, the I/O block and high RAM
Writable(a) ==
    \/ (\h8000 <= a /\ a < \hA000)
    \/ (\hC000 <= a /\ a < \hFE00)
    \/ (\hFF00 <= a /\ a < \hFFFF)

\* C12: after write16(a, v), with a and a + 1 in writable regions, read16(a)
\* returns v, the low byte of v is at a and the high byte at a + 1.
C12_Write16ThenRead16 ==
    (bus.op = "write16" /\ Writable(bus.addr) /\ Writable(bus.addr + 1))
    => /\ read16(Machine(0), bus.addr) = bus.val
       /\ read(Machine(0), bus.addr) = bus.val % 256
       /\ read(Machine(0), bus.addr + 1) = bus.val \div 256

\* the documented length in bytes of the instruction with primary opcode op
InstructionLength(op) ==
    IF op \in {\h01, \h11, \h21, \h31, \h08, \hC2, \hC3, \hCA, \hD2, \hDA,
               \hC4, \hCC, \hCD, \hD4, \hDC, \hEA, \hFA} THEN 3
    ELSE IF op \in {\h06, \h0E, \h16, \h1E, \h26, \h2E, \h36, \h3E, \h10,
                    \h18, \h20, \h28, \h30, \h38, \hC6, \hCE, \hD6, \hDE,
                    \hE6, \hEE, \hF6, \hFE, \hE0, \hF0, \hE8, \hF8, \hCB} THEN 2
    ELSE 1

\* JR cc, JP cc, CALL cc, RET cc
Conditional(op) ==
    op \in {\h20, \h28, \h30, \h38, \hC2, \hCA, \hD2, \hDA,
            \hC4, \hCC, \hD4, \hDC, \hC0, \hC8, \hD0, \hD8}

\* the instruction op, executed from snapshot sn, transfers control
TransfersControl(op, sn) ==
    \/ op \in {\h18, \hC3, \hE9, \hCD, \hC9, \hD9}
    \/ (op >= \hC0 /\ op % 8 = 7)
    \/ (Conditional(op) /\ cond_holds(sn, conditions[((op \div 8) % 4) + 1]))

\* C13: every byte decodes, and an instruction that does not transfer
\* control advances PC from the address of its opcode by its documented
\* length of 1, 2 or 3 bytes.
C13_PcAdvancesByLength ==
    (hist.action = "execute" /\ ~TransfersControl(hist.op, hist.pre))
    => hist.mid.r.pc = u16(hist.pre.r.pc + InstructionLength(hist.op))

\* addresses of the cartridge ROM past the boot ROM
RomProbes == {\h0100, \h0101, \h014F, \h0150, \h2000, \h3FFF}

\* C14: after any sequence of bus writes, a read at 0x0000..0x00FF returns
\* the boot ROM byte exactly when the I/O register at 0xFF50 holds 0 and the
\* cartridge byte otherwise; a read at 0x0100..0x3FFF returns the cartridge
\* byte (for the addresses the cartridge has a byte at).
C14_BootRomOverlay ==
    /\ \A a \in 0..\hFF :
          read(Machine(0), a) = IF read(Machine(0), \hFF50) = 0
                                THEN bootstrap_rom[a + 1]
                                ELSE AtOr(mem.cart_data, a, 0)
    /\ \A a \in RomProbes :
          a < mem.cart_size => read(Machine(0), a) = AtOr(mem.cart_data, a, 0)

\* a read at 0x0000 that returned the cartridge byte, 0xFF50 holding 0xA5
C14_Witness ==
    /\ bus.op = "read"
    /\ bus.addr = \h0000
    /\ bus.val = \hAA
    /\ read(Machine(0), \hFF50) = \hA5

\* offsets into the mirrored range
EchoOffsets == {\h0000, \h0001, \h0FFF, \h1000, \h1DFE, \h1DFF}

\* C15: after any sequence of bus writes, read(0xE000 + k) = read(0xC000 + k)
\* for k in 0..0x1DFF, and a byte written to either address of such a pair
\* is what a read of the other returns.
C15_EchoMirrorsWorkRam ==
    /\ \A k \in EchoOffsets :
          read(Machine(0), \hE000 + k) = read(Machine(0), \hC000 + k)
    /\ (bus.op = "write" /\ \hC000 <= bus.addr /\ bus.addr < \hDE00)
          => read(Machine(0), bus.addr + \h2000) = bus.val
    /\ (bus.op = "write" /\ \hE000 <= bus.addr /\ bus.addr < \hFE00)
          => read(Machine(0), bus.addr - \h2000) = bus.val

\* 0xA5 written to 0xFDFF is read at 0xDDFF
C15_Witness ==
    /\ bus.op = "write"
    /\ bus.addr = \hFDFF
    /\ bus.val = \hA5
    /\ read(Machine(0), \hDDFF) = \hA5

\* C16: every bus read and write, at any address and for any cartridge of
\* at least 0x150 bytes, indexes inside the storage it accesses.
C16_BusAccessInBounds == bus.op # "none" => bus.in_bounds

\* the value of operand i of an ALU instruction (B, C, D, E, H, L, (HL), A)
Operand(sn, i) ==
    IF i = 6 THEN read(sn, get16(sn, "HL")) ELSE sn.r[reg8[i + 1]]

\* the upper nibble of F for the flags Z, N, H, C
FlagNibble(z, n, h, c) == 8 * b2i(z) + 4 * b2i(n) + 2 * b2i(h) + b2i(c)

\* C17: ADD A,r (0x80..0x87) with A = a and operand value b leaves
\* A = (a + b) mod 256, changes no other register and sets Z = (result = 0),
\* N = 0, H = ((a & 0x0F) + (b & 0x0F) > 0x0F), C = (a + b > 0xFF).
C17_AddResultAndFlags ==
    \A i \in 0..7 :
        Executed(\h80 + i) =>
            /\ hist.mid.r.A = (hist.pre.r.A + Operand(hist.pre, i)) % 256
            /\ \A reg \in {"B", "C", "D", "E", "H", "L", "sp"} :
                   hist.mid.r[reg] = hist.pre.r[reg]
            /\ hist.mid.r.F \div 16 =
                   FlagNibble((hist.pre.r.A + Operand(hist.pre, i)) % 256 = 0,
                              FALSE,
                              (hist.pre.r.A % 16) + (Operand(hist.pre, i) % 16) > 15,
                              hist.pre.r.A + Operand(hist.pre, i) > 255)

\* C18: SUB A,r (0x90..0x97) with A = a and operand value b leaves
\* A = (a - b) mod 256 and sets Z = (a = b), N = 1,
\* H = ((a & 0x0F) < (b & 0x0F)), C = (a < b).
C18_SubResultAndFlags ==
    \A i \in 0..7 :
        Executed(\h90 + i) =>
            /\ hist.mid.r.A = (hist.pre.r.A - Operand(hist.pre, i)) % 256
            /\ hist.mid.r.F \div 16 =
                   FlagNibble(hist.pre.r.A = Operand(hist.pre, i),
                              TRUE,
                              (hist.pre.r.A % 16) < (Operand(hist.pre, i) % 16),
                              hist.pre.r.A < Operand(hist.pre, i))

\* packed BCD: both nibbles are decimal digits; the number a packed BCD byte
\* stands for, and the packed BCD byte of a number below 100
IsBcd(x) == x % 16 <= 9 /\ x \div 16 <= 9
DecOf(x) == 10 * (x \div 16) + (x % 16)
BcdOf(n) == 16 * (n \div 10) + (n % 10)

\* DAA has been executed right after ADD A,n; the operands of that ADD
DaaAfterAdd == Executed(\h27) /\ ExecutedBefore(\hC6)
AddendA == hist.prev_pre.r.A
AddendN == read(hist.prev_pre, u16(hist.prev_pre.r.pc + 1))

\* C19: for packed BCD bytes a and b, ADD A,n with A = a, n = b followed by
\* DAA leaves A the packed BCD byte of (a + b) mod 100 in decimal, with
\* C = (the decimal sum >= 100), Z = (A = 0), H = 0 and N = 0.
C19_DaaAfterBcdAdd ==
    (DaaAfterAdd /\ IsBcd(AddendA) /\ IsBcd(AddendN))
    => /\ hist.mid.r.A = BcdOf((DecOf(AddendA) + DecOf(AddendN)) % 100)
       /\ hist.mid.r.F \div 16 =
              FlagNibble(hist.mid.r.A = 0, FALSE, FALSE,
                         DecOf(AddendA) + DecOf(AddendN) >= 100)

\* ADD A,0 executed with H, C and N clear, then DAA
DaaAfterAddZero ==
    /\ DaaAfterAdd
    /\ AddendN = 0
    /\ (hist.prev_pre.r.F \div 16) % 8 = 0

\* C20, as stated: for any A in 0x00..0x99 with H, C and N clear, ADD A,0
\* then DAA leaves A unchanged and sets Z = (A = 0).
C20_DaaIdempotent ==
    (DaaAfterAddZero /\ AddendA <= \h99)
    => /\ hist.mid.r.A = AddendA
       /\ zero(hist.mid) = (AddendA = 0)

\* C20, amended: the same for any packed BCD byte A (both nibbles at most 9).
C20_DaaIdempotentOnBcd ==
    (DaaAfterAddZero /\ IsBcd(AddendA))
    => /\ hist.mid.r.A = AddendA
       /\ zero(hist.mid) = (AddendA = 0)

\* ADD A,0 then DAA executed on A = 0x99, and A is 0x99 after
C20_Witness ==
    /\ DaaAfterAddZero
    /\ AddendA = \h99
    /\ hist.mid.r.A = \h99
    /\ ~zero(hist.mid)

\* the extended instruction 0xCB e has been executed in the last turn, or in
\* the turn before it
ExtExecuted(e) ==
    Executed(\hCB) /\ read(hist.pre, u16(hist.pre.r.pc + 1)) = e
ExtExecutedBefore(e) ==
    ExecutedBefore(\hCB) /\ read(hist.prev_pre, u16(hist.prev_pre.r.pc + 1)) = e

\* C21: RLC r (0xCB 0x00..0x07) followed by RRC r (0xCB 0x08..0x0F) on the
\* same operand restores the operand and the C flag, for every operand value
\* and either value of the carry flag.
C21_RlcRrcRoundTrip ==
    \A i \in 0..7 :
        (ExtExecuted(8 + i) /\ ExtExecutedBefore(i))
        => /\ Operand(hist.mid, i) = Operand(hist.prev_pre, i)
           /\ carry(hist.mid) = carry(hist.prev_pre)

\* RLC B then RRC B from B = 0x80 with the carry flag clear
C21_Witness ==
    /\ ExtExecuted(8)
    /\ ExtExecutedBefore(0)
    /\ hist.prev_pre.r.B = \h80
    /\ ~carry(hist.prev_pre)
    /\ hist.pre.r.B = \h00
    /\ carry(hist.pre)
    /\ hist.mid.r.B = \h80
    /\ ~carry(hist.mid)

\* C22: PUSH rr with SP = s in writable RAM leaves SP = s - 2, the low byte
\* of rr at s - 2, the high byte at s - 1 and every other memory byte as it
\* was; POP rr with SP = t loads rr from the bytes at t (low) and t + 1
\* (high) and leaves SP = t + 2.
C22_PushLayout ==
    \A i \in 0..3 :
        (Executed(\hC5 + 16 * i) /\ StackInRam(hist.pre.r.sp))
        => LET s  == hist.pre.r.sp
               v  == get16(hist.pre, stack16[i + 1])
               lo == write(hist.pre, u16(s - 2), v % 256)
           IN /\ hist.mid.r.sp = u16(s - 2)
              /\ hist.mid.mem = write(lo, u16(s - 1), v \div 256).mem
C22_PopLayout ==
    \A i \in 0..3 :
        Executed(\hC1 + 16 * i)
        => LET t == hist.pre.r.sp
           IN /\ get16(hist.mid, stack16[i + 1])
                    = read(hist.pre, u16(t + 1)) * 256 + read(hist.pre, t)
              /\ hist.mid.r.sp = u16(t + 2)
C22_PushPopLayout == C22_PushLayout /\ C22_PopLayout

\* the cartridge byte at index a, and the sum of the bytes at a..b
HeaderByte(a) == AtOr(mem.cart_data, a, 0)
RECURSIVE HeaderByteSum(_, _)
HeaderByteSum(a, b) == IF a > b THEN 0 ELSE HeaderByte(a) + HeaderByteSum(a + 1, b)
\* 0 lowered by byte + 1 for each of the 25 bytes at 0x134..0x14C, mod 256
HeaderChecksum == u8(0 - HeaderByteSum(\h134, \h14C) - 25)

\* C23: header_checksum_valid returns true exactly when the checksum s of
\* the bytes 0x134..0x14C (s := s - byte - 1 mod 256 from 0) equals the
\* byte at 0x14D, and a non-null out-parameter receives s.
C23_HeaderChecksum ==
    header.call = "header_checksum_valid"
    => /\ header.result = (HeaderChecksum = HeaderByte(\h14D))
       /\ ~header.null => header.actual = HeaderChecksum

\* a call that stored the sum and returned true, and one that returned false
C23_Witness ==
    /\ header.call = "header_checksum_valid"
    /\ ~header.null
    /\ header.result = TRUE
    /\ header.actual = HeaderByte(\h14D)
    /\ HeaderByte(\h148) = 3
    /\ HeaderByte(\h134) = \h41
C23_WitnessInvalid ==
    /\ header.call = "header_checksum_valid"
    /\ ~header.null
    /\ header.result = FALSE
    /\ header.actual # HeaderByte(\h14D)

\* the size_t of a number below 2^31
SizeOf(n) == <<n % 65536, n \div 65536, 0, 0>>

\* C24: with ROM size code c at 0x148, num_rom_banks() is 2 << c and
\* rom_size() is that number of banks times 0x4000 bytes.
C24_NumRomBanks ==
    header.call = "num_rom_banks" => header.result = SizeOf(2 * 2 ^ HeaderByte(\h148))
C24_RomSize ==
    header.call = "rom_size"
    => header.result = SizeOf(2 * 2 ^ HeaderByte(\h148) * \h4000)
C24_RomBanksAndSize == C24_NumRomBanks /\ C24_RomSize

\* C25: nintendo_logo_valid returns true exactly when the 48 bytes at
\* 0x104..0x133 equal the reference logo.
C25_LogoValid ==
    header.call = "nintendo_logo_valid"
    => header.result = (\A i \in 0..47 : HeaderByte(\h104 + i) = expect[i + 1])

\* the cartridge indices among the addresses the bus is driven with
CartProbes == {a \in BusAddrs : a < \h8000}

\* C26: no bus write changes a byte of the cartridge buffer, stores to
\* 0x0000..0x7FFF through the direct-mapping controller included.
C26_CartridgeImmutable ==
    [][\A a \in CartProbes :
           a < mem.cart_size
           => AtOr(mem'.cart_data, a, 0) = AtOr(mem.cart_data, a, 0)]_vars

\* C27: IME is true by the time one further instruction has been executed
\* after an EI, for every EI: when the loop is about to execute an
\* instruction and exactly one instruction (not DI) has been executed since
\* the latest EI, with no interrupt dispatched since, IME is true.
C27_EveryEiNextTurn ==
    (hist.since_ei = 1 /\ running /\ pipeline # <<>> /\ Head(pipeline) = "execute")
    => interrupts_enabled

\* C28: a halt turn taken with IME false while an interrupt is requested in
\* IF and enabled in IE resumes execution where PC stands (the instructions
\* after the HALT are not gone over again), jumps to no vector and leaves
\* IF as it was.
C28_LeaveHaltImeClear ==
    ( /\ hist.action = "halt"
      /\ ~hist.pre.interrupts_enabled
      /\ And8(IFof(hist.pre), IEof(hist.pre)) % 32 # 0 )
    => /\ hist.mid.r.pc = hist.pre.r.pc
       /\ hist.vector = 0
       /\ IFof(hist.pi) = IFof(hist.pre)
\* the two frame conditions of C28 alone
C28_NoJumpIfKept ==
    ( /\ hist.action = "halt"
      /\ ~hist.pre.interrupts_enabled
      /\ And8(IFof(hist.pre), IEof(hist.pre)) % 32 # 0 )
    => /\ hist.vector = 0
       /\ IFof(hist.pi) = IFof(hist.pre)

\* what ADC A,x and SBC A,x are to leave in A and in the flags, from
\* snapshot b to snapshot a with operand value x
AdcEffect(b, a, x) ==
    /\ a.r.A = (b.r.A + x + b2i(carry(b))) % 256
    /\ a.r.F \div 16 =
           FlagNibble((b.r.A + x + b2i(carry(b))) % 256 = 0,
                      FALSE,
                      (b.r.A % 16) + (x % 16) + b2i(carry(b)) > 15,
                      b.r.A + x + b2i(carry(b)) > 255)
SbcEffect(b, a, x) ==
    /\ a.r.A = (b.r.A - x - b2i(carry(b))) % 256
    /\ a.r.F \div 16 =
           FlagNibble((b.r.A - x - b2i(carry(b))) % 256 = 0,
                      TRUE,
                      (b.r.A % 16) < (x % 16) + b2i(carry(b)),
                      b.r.A < x + b2i(carry(b)))
\* the byte after the opcode
Immediate(sn) == read(sn, u16(sn.r.pc + 1))

\* C29: ADC A,x (0x88..0x8F, 0xCE) and SBC A,x (0x98..0x9F, 0xDE) take the
\* carry flag into the result and into H, C and Z; SBC sets N, ADC resets it.
C29_Adc ==
    /\ \A i \in 0..7 :
           Executed(\h88 + i) => AdcEffect(hist.pre, hist.mid, Operand(hist.pre, i))
    /\ Executed(\hCE) => AdcEffect(hist.pre, hist.mid, Immediate(hist.pre))
C29_Sbc ==
    /\ \A i \in 0..7 :
           Executed(\h98 + i) => SbcEffect(hist.pre, hist.mid, Operand(hist.pre, i))
    /\ Executed(\hDE) => SbcEffect(hist.pre, hist.mid, Immediate(hist.pre))
C29_AdcSbcWithCarry == C29_Adc /\ C29_Sbc

\* the result of ADC alone: A = (a + b + c) mod 256
C29_AdcResult ==
    \A i \in 0..7 :
        Executed(\h88 + i)
        => hist.mid.r.A = (hist.pre.r.A + Operand(hist.pre, i) + b2i(carry(hist.pre))) % 256

\* C30: INC x (0x04 + 8i) leaves (x + 1) mod 256 in the operand and DEC x
\* (0x05 + 8i) leaves (x - 1) mod 256, for register and (HL) operands, with
\* Z = (new value = 0), N = 0 for INC and 1 for DEC, H the carry out of, or
\* the borrow into, the low nibble, and C unchanged.
C30_Inc ==
    \A i \in 0..7 :
        Executed(\h04 + 8 * i) =>
            /\ Operand(hist.mid, i) = (Operand(hist.pre, i) + 1) % 256
            /\ hist.mid.r.F \div 16 =
                   FlagNibble((Operand(hist.pre, i) + 1) % 256 = 0, FALSE,
                              Operand(hist.pre, i) % 16 = 15, carry(hist.pre))
C30_Dec ==
    \A i \in 0..7 :
        Executed(\h05 + 8 * i) =>
            /\ Operand(hist.mid, i) = (Operand(hist.pre, i) - 1) % 256
            /\ hist.mid.r.F \div 16 =
                   FlagNibble((Operand(hist.pre, i) - 1) % 256 = 0, TRUE,
                              Operand(hist.pre, i) % 16 = 0, carry(hist.pre))
C30_IncDec == C30_Inc /\ C30_Dec

\* the new operand value of INC alone, and the C flag under INC and DEC
C30_IncValue ==
    \A i \in 0..7 :
        Executed(\h04 + 8 * i) => Operand(hist.mid, i) = (Operand(hist.pre, i) + 1) % 256
C30_CarryKept ==
    \A i \in 0..7 :
        (Executed(\h04 + 8 * i) \/ Executed(\h05 + 8 * i))
        => carry(hist.mid) = carry(hist.pre)

\* C31: ADD HL,rr (0x09, 0x19, 0x29, 0x39) with HL = h and rr = v leaves
\* HL = (h + v) mod 2^16, N = 0, H = carry out of bit 11, C = carry out of
\* bit 15 and Z unchanged.
C31_AddHl ==
    \A i \in 0..3 :
        Executed(\h09 + 16 * i) =>
            /\ get16(hist.mid, "HL")
                   = (get16(hist.pre, "HL") + get16(hist.pre, reg16[i + 1])) % 65536
            /\ hist.mid.r.F \div 16 =
                   FlagNibble(zero(hist.pre), FALSE,
                              (get16(hist.pre, "HL") % 4096)
                                  + (get16(hist.pre, reg16[i + 1]) % 4096) > 4095,
                              get16(hist.pre, "HL") + get16(hist.pre, reg16[i + 1]) > 65535)

\* C31 without the H flag: the sum, N, C and Z
C31_AddHlButH ==
    \A i \in 0..3 :
        Executed(\h09 + 16 * i) =>
            /\ get16(hist.mid, "HL")
                   = (get16(hist.pre, "HL") + get16(hist.pre, reg16[i + 1])) % 65536
            /\ ~sub(hist.mid)
            /\ zero(hist.mid) = zero(hist.pre)
            /\ carry(hist.mid)
                   = (get16(hist.pre, "HL") + get16(hist.pre, reg16[i + 1]) > 65535)

\* C32: LD HL,SP+d (0xF8) leaves HL = (SP + d) mod 2^16 for the signed byte
\* d, SP and memory unchanged, Z = 0, N = 0, and H and C the carries out of
\* bit 3 and bit 7 of the unsigned sum of SP's low byte and the byte d.
C32_LdHlSpOffset ==
    Executed(\hF8) =>
        /\ get16(hist.mid, "HL") = u16(hist.pre.r.sp + s8(Immediate(hist.pre)))
        /\ hist.mid.r.sp = hist.pre.r.sp
        /\ hist.mid.mem = hist.pre.mem
        /\ hist.mid.r.F \div 16 =
               FlagNibble(FALSE, FALSE,
                          (hist.pre.r.sp % 16) + (Immediate(hist.pre) % 16) > 15,
                          (hist.pre.r.sp % 256) + Immediate(hist.pre) > 255)

\* C32 without HL and the H and C flags
C32_LdHlSpFrame ==
    Executed(\hF8) =>
        /\ hist.mid.r.sp = hist.pre.r.sp
        /\ hist.mid.mem = hist.pre.mem
        /\ ~zero(hist.mid)
        /\ ~sub(hist.mid)

\* the operand i of snapshot a is that of snapshot b with bit n made v
BitMade(b, a, i, n, v) ==
    \A k \in 0..7 :
        BitOf(Operand(a, i), k) = IF k = n THEN v ELSE BitOf(Operand(b, i), k)

\* C33: RES n,x (0xCB 0x80..0xBF) makes bit n of the operand 0 and SET n,x
\* (0xCB 0xC0..0xFF) makes it 1, for registers and (HL) alike; the other
\* seven bits and F are unchanged.
C33_SetRes ==
    \A ext \in \h80..\hFF :
        ExtExecuted(ext) =>
            /\ BitMade(hist.pre, hist.mid, ext % 8, (ext \div 8) % 8, b2i(ext >= \hC0))
            /\ hist.mid.r.F = hist.pre.r.F

\* C33 for the register operands alone
C33_SetResRegisters ==
    \A ext \in \h80..\hFF :
        (ExtExecuted(ext) /\ ext % 8 # 6) =>
            /\ BitMade(hist.pre, hist.mid, ext % 8, (ext \div 8) % 8, b2i(ext >= \hC0))
            /\ hist.mid.r.F = hist.pre.r.F

\* C34: every opcode b in 0x40..0x7F but 0x76 copies the operand b & 7 into
\* the operand (b >> 3) & 7, operands in the order B, C, D, E, H, L, (HL), A,
\* and changes no flag, no other register and, unless (HL) is the
\* destination, no memory.
C34_LdTable ==
    \A b \in (\h40..\h7F) \ {\h76} :
        Executed(b) =>
            /\ Operand(hist.mid, (b \div 8) % 8) = Operand(hist.pre, b % 8)
            /\ \A reg \in {"A", "B", "C", "D", "E", "H", "L", "F", "sp"} :
                   reg # reg8[((b \div 8) % 8) + 1] => hist.mid.r[reg] = hist.pre.r[reg]
            /\ (b \div 8) % 8 # 6 => hist.mid.mem = hist.pre.mem

\* C34 but for the opcodes 0x70..0x75
C34_LdTableButStores ==
    \A b \in (\h40..\h7F) \ (\h70..\h76) :
        Executed(b) =>
            /\ Operand(hist.mid, (b \div 8) % 8) = Operand(hist.pre, b % 8)
            /\ \A reg \in {"A", "B", "C", "D", "E", "H", "L", "F", "sp"} :
                   reg # reg8[((b \div 8) % 8) + 1] => hist.mid.r[reg] = hist.pre.r[reg]
            /\ (b \div 8) % 8 # 6 => hist.mid.mem = hist.pre.mem

\* C35: LDH (n),A (0xE0) stores A at 0xFF00 + n (looked at for n in high
\* RAM) and leaves A unchanged; LDH A,(n) (0xF0) loads A from 0xFF00 + n and
\* leaves memory unchanged.
C35_LdhStore ==
    Executed(\hE0) =>
        /\ hist.mid.r.A = hist.pre.r.A
        /\ Immediate(hist.pre) \in \h80..\hFE
               => read(hist.mid, \hFF00 + Immediate(hist.pre)) = hist.pre.r.A
C35_LdhLoad ==
    Executed(\hF0) =>
        /\ hist.mid.r.A = read(hist.pre, \hFF00 + Immediate(hist.pre))
        /\ hist.mid.mem = hist.pre.mem
C35_LdhDirection == C35_LdhStore /\ C35_LdhLoad

\* C36: RST (0xC7, 0xCF, ..., 0xFF) leaves PC at the vector 0x00, 0x08, ...,
\* 0x38 of its opcode, whatever memory holds.
C36_RstVector ==
    \A k \in 0..7 : Executed(\hC7 + 8 * k) => hist.mid.r.pc = 8 * k

\* RST drops SP by 2
C36_RstPushes ==
    \A k \in 0..7 : Executed(\hC7 + 8 * k) => hist.mid.r.sp = u16(hist.pre.r.sp - 2)

\* C37: at the top of every iteration of the run loop the queue holds at
\* least one action.
C37_PipelineNeverEmpty == run_pc = "loop" => pipeline # <<>>

\* a halt turn, which queues nothing, has left one action in the queue
C37_Witness ==
    /\ run_pc = "loop"
    /\ hist.action = "halt"
    /\ pipeline = <<"execute">>

\* C38: the queue never holds more than two pending actions.
C38_PipelineBounded == Len(pipeline) <= 2

\* the DIV register of the stored memory and of a snapshot
DIVnow == AtOr(mem.io_registers, divider - \hFF00, 0)
DIVof(sn) == AtOr(sn.mem.io_registers, divider - \hFF00, 0)
\* the cycles of the last turn took the running total over a multiple of 256
Crossed == hist.total % 256 < hist.step

\* C39: at the end of every turn the cycle counter is below 256 and is the
\* total of the instruction cycles mod 256, and DIV has gone up by one
\* (mod 256) in the turn exactly when the total crossed a multiple of 256.
C39_CyclesAndDiv ==
    hist.action # "none" =>
        /\ cycles < 256
        /\ cycles = hist.total % 256
        /\ DIVnow = (DIVof(hist.lcd) + b2i(Crossed)) % 256

\* the total has crossed 256 with cycles to spare, and DIV has ticked once
C39_Witness ==
    /\ hist.total = 264
    /\ Crossed
    /\ cycles = 8
    /\ DIVnow = 1
    /\ DIVof(hist.lcd) = 0

\* C40: once a non-zero byte has been written to 0xFF50, reads of
\* 0x0000..0x00FF return the cartridge byte, whatever is written afterwards.
C40_BootRomStaysDisabled ==
    bus.disabled =>
        \A a \in 0..\hFF : read(Machine(0), a) = AtOr(mem.cart_data, a, 0)

=============================================================================
